---- MODULE Spec2Model ----
(***************************************************************************)
(* Model of the ingestion-to-organization pipeline of smart_file_organizer *)
(* (src/smart_file_organizer/src): the deduplication engine, the event     *)
(* gate of the watcher, the processing queue manager, the file mover and   *)
(* the history tracker.                                                    *)
(*                                                                         *)
(* One set of variables holds the state of all components.  Each component *)
(* has its own next-state relation and specification (SpecDedup, ...), so  *)
(* that a property of one component is checked over that component's       *)
(* reachable states.                                                       *)
(***************************************************************************)
EXTENDS Integers, Sequences, FiniteSets, TLC

VARIABLES
    disk,                   \* the filesystem: existing path -> content (a byte sequence)
    \* DeduplicationEngine
    size_index,             \* _size_index: size -> [paths]
    files_pending_partial,  \* _files_pending_partial: size -> [paths]
    partial_hash_index,     \* _partial_hash_index: partial -> [paths]
    full_hash_index,        \* _full_hash_index: full -> first path
    path_to_partial_hash,   \* _path_to_partial_hash
    path_to_full_hash,      \* _path_to_full_hash
    result,                 \* the HashResult of the latest check_duplicate / add_to_index call
    trail,                  \* history: the latest run of consecutive check_duplicate calls (at most 2)
    ncalls,                 \* history: number of engine calls so far
    nchanges,               \* history: number of filesystem changes made by the environment
    \* OrganizerEventHandler and its DebounceTracker (monitoring/watcher.py)
    now,                    \* time.time(), in units of the settling check_interval
    pending,                \* DebounceTracker._pending: path -> time of the last accepted event
    processing_set,         \* OrganizerEventHandler._processing_set
    settlers,               \* the running wait_and_enqueue threads, oldest first
    processing_queue,       \* the Queue between the event handler and the queue bridge
    enq_log,                \* history: one record per path handed to processing_queue
    nevents,                \* history: number of watch events so far
    \* ProcessingQueueManager (monitoring/queue_manager.py)
    tasks,                  \* every ProcessingTask created so far; a task's id is its index
    queue,                  \* ProcessingQueueManager.queue (task ids)
    active_tasks,           \* _active_tasks: path -> task id
    stats,                  \* ProcessingStats
    timers,                 \* task ids whose retry Timer has not fired yet
    submitted,              \* task ids submitted to the executor, not yet picked by a worker
    executing,              \* task ids inside _process_task on a worker thread
    \* SmartFileOrganizer.process_file (main.py) and HistoryTracker (actions/history_tracker.py)
    jobs,                   \* every process_file call so far, with its position
    history,                \* HistoryTracker._history
    next_id,                \* HistoryTracker._next_id
    history_file,           \* the ledger file as last written by _save_history
    undo_result,            \* what the latest undo_last call returned
    nundo,                  \* history: number of undo calls so far
    issued,                 \* history: the entries record_move created, in order of creation
    cleared_at,             \* history: Len(issued) when the ledger was last emptied
    boot,                   \* how the running HistoryTracker was constructed
    undo_call,              \* history: what the latest undo call selected and did
    \* calls in progress on worker threads
    resolved,               \* the latest conflict resolution: its result and what it saw
    movers,                 \* FileOperations.move_file calls in progress
    checkers,               \* DeduplicationEngine.check_duplicate calls in progress
    recorders,              \* HistoryTracker.record_move calls in progress
    \* the life cycle of the queue manager, and the classification of one file
    running,                \* ProcessingQueueManager._running
    worker_thread,          \* _worker_thread, the dispatcher: "alive" or "exited"
    executor_shutdown,      \* executor.shutdown was called
    stop_pc,                \* a stop() call: its position, and history of the moment it was made
    chain,                  \* the latest classification of a file: the tiers' answers and the outcome
    \* file permissions, and the latest check_duplicate call
    unreadable,             \* the paths whose file cannot be opened for reading
    last_call,              \* history: the latest check_duplicate call and what it met
    partial_computed,       \* history: how many times each path's partial hash was computed
    task_pc,                \* where put(), the dispatcher or a worker stands inside its handling
                            \* of a task, when the handlers are followed statement by statement
    last_event              \* history: the latest watch event, whether the ignore filter dropped it,
                            \* and whether it passed the gate (a settling thread was started)

dedupVars == <<size_index, files_pending_partial, partial_hash_index,
               full_hash_index, path_to_partial_hash, path_to_full_hash>>

dedupHist == <<result, trail, ncalls>>

gateVars == <<now, pending, processing_set, settlers, processing_queue, enq_log, nevents>>

queueVars == <<tasks, queue, active_tasks, stats, timers, submitted, executing>>

pipeVars == <<jobs, history, next_id, history_file, undo_result, nundo>>

ledgerHist == <<issued, cleared_at, boot, undo_call>>

workVars == <<resolved, movers, checkers, recorders>>

ctlVars == <<running, worker_thread, executor_shutdown, stop_pc, chain,
             unreadable, last_call, partial_computed, task_pc, last_event>>

vars == <<disk, dedupVars, dedupHist, nchanges, gateVars, queueVars, pipeVars,
          ledgerHist, workVars, ctlVars>>

(***************************************************************************)
(* Bounds of the model.                                                    *)
(***************************************************************************)
\* PartialHasher.chunk_size, scaled down from 4096 bytes to 1 byte.
ChunkSize == 1
\* Engine calls explored by SpecDedup.
MaxCalls == 4
\* Filesystem changes (files written, files removed) explored by SpecDedup.
MaxChanges == 1
\* Tasks put on the queue explored by SpecQueue.
MaxTasks == 2
\* Watch events explored by SpecGate.
MaxEvents == 3
\* Filesystem changes explored by SpecGate.
MaxGateChanges == 1
\* Clock ticks explored by SpecGate.
MaxTicks == 5
\* record_move calls explored by SpecLedger.
MaxRecords == 3
\* Filesystem changes by others explored by SpecLedger.
MaxLedgerChanges == 2
\* process_file calls explored by SpecPipeline.
MaxJobs == 3
\* undo_last calls explored by SpecPipeline.
MaxUndos == 2
\* The counter limit of FileOperations._resolve_conflict, scaled down from 1000.
RenameLimit == 2
\* Concurrent check_duplicate calls explored by SpecRace.
MaxCheckers == 3
\* Concurrent record_move calls explored by SpecRecorders.
MaxRecorders == 3
\* move_file calls explored by SpecMovers.
MaxMovers == 3
\* The counter limit of ConflictResolver._generate_unique_name, scaled down
\* from 9999 names.
UniqueNameLimit == 3
\* HistoryTracker.MAX_HISTORY_SIZE, scaled down from 1000 entries.
MAX_HISTORY_SIZE == 2
\* max_checks of the settling wait: int(timeout / check_interval) = int(30.0 / 0.5)
\* = 60 in wait_and_enqueue, scaled down to 4 samples.
SettleMaxChecks == 4

(***************************************************************************)
(* Program constants.                                                      *)
(***************************************************************************)
\* ProcessingQueueManager.max_retries (the default, which main.py uses)
MaxRetries == 3
\* ProcessingQueueManager.max_workers as main.py sets it
MaxWorkers == 4
\* WatcherConfig.debounce_seconds = 1.0, in units of check_interval = 0.5 s
DebounceWindow == 2
\* is_file_ready: stability_checks
StabilityChecks == 2

(***************************************************************************)
(* Paths and file contents.                                                *)
(***************************************************************************)
\* A path: directory, file name, and the counter suffix of the name (0: none).
Path(d, nm, k) == [dir |-> d, name |-> nm, n |-> k]

\* "no path" (Python None where a path is expected)
NoPath == Path("", "", 0)

\* The paths handed to the deduplication engine.
DedupPaths == {Path("watch", "a", 0), Path("watch", "b", 0), Path("watch", "c", 0)}

\* File contents: two 4-byte files that differ only in a byte the partial
\* hash does not read, and a 1-byte file.
DedupContents == {<<1, 1, 1, 1>>, <<1, 2, 1, 1>>, <<1>>}

Exists(dsk, p) == p \in DOMAIN dsk

(***************************************************************************)
(* Python dict and list helpers.                                           *)
(***************************************************************************)
\* d[k] = v
DictPut(d, k, v) == [x \in (DOMAIN d) \cup {k} |-> IF x = k THEN v ELSE d[x]]

\* del d[k]
DictDel(d, k) == [x \in (DOMAIN d) \ {k} |-> d[x]]

\* d.get(k, default)
DictGet(d, k, default) == IF k \in DOMAIN d THEN d[k] ELSE default

\* x in list
InList(s, x) == \E i \in 1..Len(s) : s[i] = x

\* list.remove(x): removes the first occurrence
ListRemove(s, x) ==
    LET i == CHOOSE i \in 1..Len(s) : s[i] = x /\ \A j \in 1..(i - 1) : s[j] # x
    IN  SubSeq(s, 1, i - 1) \o SubSeq(s, i + 1, Len(s))

\* the empty dict
EmptyDict == [x \in {} |-> 0]

(***************************************************************************)
(* Hashing.  SHA-256 is modelled as an injective function of the bytes fed *)
(* to it: the digest of bytes b is <<0>> \o b.  <<>> is "no hash" (None).  *)
(***************************************************************************)
NoHash == <<>>

Sha256(bytes) == <<0>> \o bytes

\* f.seek(pos); f.read(n) on content c (pos is 0-based)
ReadAt(c, pos, n) ==
    LET lo == pos + 1
        hi == IF pos + n < Len(c) THEN pos + n ELSE Len(c)
    IN  IF lo > hi THEN <<>> ELSE SubSeq(c, lo, hi)

\* FullHasher.compute / PartialHasher._hash_full on a readable file
FullHashOf(c) == Sha256(c)

\* PartialHasher.compute on a readable file
PartialHashOf(c) ==
    LET file_size == Len(c)
    IN  IF file_size <= ChunkSize * 3
        THEN FullHashOf(c)
        ELSE Sha256(ReadAt(c, 0, ChunkSize)
                    \o ReadAt(c, file_size \div 2, ChunkSize)
                    \o ReadAt(c, file_size - ChunkSize, ChunkSize)
                    \o <<file_size>>)

\* Whether the file cannot be read: it is missing, or open() is refused
CannotHash(dsk, p) == ~Exists(dsk, p) \/ p \in unreadable

\* Whether PartialHasher.compute lets the OSError of open() through: stat()
\* succeeds, the file is small enough for _hash_full, which opens it outside
\* any try block, and the file cannot be opened
HashEscapes(dsk, p) ==
    /\ Exists(dsk, p)
    /\ p \in unreadable
    /\ Len(dsk[p]) <= ChunkSize * 3

(***************************************************************************)
(* DeduplicationEngine (deduplication/hash_engine.py).                     *)
(* The six indexes are passed around as one record ix.                     *)
(***************************************************************************)
Index == [size_index |-> size_index,
          files_pending_partial |-> files_pending_partial,
          partial_hash_index |-> partial_hash_index,
          full_hash_index |-> full_hash_index,
          path_to_partial_hash |-> path_to_partial_hash,
          path_to_full_hash |-> path_to_full_hash]

\* DeduplicationEngine.__init__: all indexes empty
EmptyIndex == [size_index |-> EmptyDict,
               files_pending_partial |-> EmptyDict,
               partial_hash_index |-> EmptyDict,
               full_hash_index |-> EmptyDict,
               path_to_partial_hash |-> EmptyDict,
               path_to_full_hash |-> EmptyDict]

\* HashResult
HashResult(fp, size, partial, full, st, dup) ==
    [file_path |-> fp, file_size |-> size, partial_hash |-> partial,
     full_hash |-> full, status |-> st, duplicate_of |-> dup]

\* no call has returned yet, or the latest call raised
NoResult == HashResult(NoPath, 0, NoHash, NoHash, "none", NoPath)

\* what a call yields: the indexes after it, whether it raised, its HashResult
Outcome(ix, raised, res) == [ix |-> ix, raised |-> raised, result |-> res]

\* whether the loop over the pending candidates is left by an OSError
PartialEscapes(dsk, candidates) ==
    \E i \in 1..Len(candidates) : HashEscapes(dsk, candidates[i])

\* check_duplicate, the loop that partial-hashes the pending candidates: a
\* candidate whose hashing raises DeduplicationError is skipped, an OSError
\* ends the loop with the indexes as they are
RECURSIVE HydratePartial(_, _, _)
HydratePartial(ix, dsk, candidates) ==
    IF candidates = <<>> THEN ix
    ELSE LET candidate == Head(candidates) IN
         IF HashEscapes(dsk, candidate) THEN ix
         ELSE IF CannotHash(dsk, candidate)
         THEN HydratePartial(ix, dsk, Tail(candidates))
         ELSE LET c_partial_hash == PartialHashOf(dsk[candidate])
                  ix1 == [ix EXCEPT
                            !.path_to_partial_hash = DictPut(@, candidate, c_partial_hash),
                            !.partial_hash_index =
                                DictPut(@, c_partial_hash,
                                    Append(DictGet(@, c_partial_hash, <<>>), candidate))]
              IN  HydratePartial(ix1, dsk, Tail(candidates))

\* check_duplicate, the loop that full-hashes the candidates of one partial hash
RECURSIVE HydrateFull(_, _, _, _)
HydrateFull(ix, dsk, candidates, full_hash) ==
    IF candidates = <<>> THEN ix
    ELSE LET candidate == Head(candidates) IN
         IF candidate \in DOMAIN ix.path_to_full_hash
         THEN HydrateFull(ix, dsk, Tail(candidates), full_hash)
         ELSE IF CannotHash(dsk, candidate)
         THEN HydrateFull(ix, dsk, Tail(candidates), full_hash)
         ELSE LET candidate_hash == FullHashOf(dsk[candidate])
                  ix1 == [ix EXCEPT
                            !.path_to_full_hash = DictPut(@, candidate, candidate_hash),
                            !.full_hash_index =
                                IF candidate_hash \in DOMAIN @ THEN @
                                ELSE DictPut(@, candidate_hash, candidate)]
              IN  IF candidate_hash = full_hash THEN ix1
                  ELSE HydrateFull(ix1, dsk, Tail(candidates), full_hash)

\* check_duplicate: "original_path.exists() and original_path != file_path"
\* (a variant without the comparison of the two paths)
IsTrueDuplicate_NoSelfTest(dsk, original_path, file_path) ==
    Exists(dsk, original_path)

IsTrueDuplicate(dsk, original_path, file_path) ==
    Exists(dsk, original_path) /\ original_path # file_path

\* the candidates of the pending list on which partial_hasher.compute ran to
\* its end, in order
RECURSIVE HashedCandidates(_, _)
HashedCandidates(dsk, candidates) ==
    IF candidates = <<>> THEN <<>>
    ELSE IF HashEscapes(dsk, Head(candidates)) THEN <<>>
    ELSE IF CannotHash(dsk, Head(candidates))
    THEN HashedCandidates(dsk, Tail(candidates))
    ELSE <<Head(candidates)>> \o HashedCandidates(dsk, Tail(candidates))

\* check_duplicate: the files whose partial hash the call computes, in order:
\* the incoming file once stage 1 is passed, then the pending candidates
PartialComputes(ix, dsk, file_path) ==
    IF ~Exists(dsk, file_path) THEN <<>>
    ELSE IF Len(dsk[file_path]) \notin DOMAIN ix.size_index THEN <<>>
    ELSE IF file_path \in unreadable THEN <<>>
    ELSE <<file_path>>
         \o HashedCandidates(dsk, DictGet(ix.files_pending_partial,
                                          Len(dsk[file_path]), <<>>))

\* the computation counts after the files of hashed were hashed
RECURSIVE Counted(_, _)
Counted(counts, hashed) ==
    IF hashed = <<>> THEN counts
    ELSE Counted(DictPut(counts, Head(hashed), DictGet(counts, Head(hashed), 0) + 1),
                 Tail(hashed))

\* check_duplicate, stage 1: first file of this size
\* (a variant that hashes the file at once, as the later stages do)
CheckStage1_Eager(ix, file_path, file_size) ==
    Outcome([ix EXCEPT !.size_index = DictPut(@, file_size, <<file_path>>),
                       !.files_pending_partial = DictPut(@, file_size, <<file_path>>),
                       !.path_to_partial_hash =
                           DictPut(@, file_path, PartialHashOf(disk[file_path]))],
            FALSE,
            HashResult(file_path, file_size, PartialHashOf(disk[file_path]), NoHash,
                       "unique", NoPath))

CheckStage1(ix, file_path, file_size) ==
    Outcome([ix EXCEPT !.size_index = DictPut(@, file_size, <<file_path>>),
                       !.files_pending_partial = DictPut(@, file_size, <<file_path>>)],
            FALSE,
            HashResult(file_path, file_size, NoHash, NoHash, "unique", NoPath))

\* check_duplicate, stage 3: the partial hash is in the index
CheckStage3(ix0, dsk, file_path, file_size, partial_hash) ==
    LET full_hash == FullHashOf(dsk[file_path])
        ix1 == [ix0 EXCEPT !.path_to_full_hash = DictPut(@, file_path, full_hash)]
        skip_candidates ==
            /\ full_hash \in DOMAIN ix1.full_hash_index
            /\ IsTrueDuplicate(dsk, ix1.full_hash_index[full_hash], file_path)
        ix2 == IF skip_candidates THEN ix1
               ELSE HydrateFull(ix1, dsk, ix1.partial_hash_index[partial_hash], full_hash)
    IN  IF full_hash \in DOMAIN ix2.full_hash_index
        THEN LET original_path == ix2.full_hash_index[full_hash] IN
             IF IsTrueDuplicate(dsk, original_path, file_path)
             THEN Outcome(ix2, FALSE,
                          HashResult(file_path, file_size, partial_hash, full_hash,
                                     "exact_duplicate", original_path))
             ELSE \* the original was moved or deleted: re-point the indexes
                  LET sizes == DictGet(ix2.size_index, file_size, <<>>)
                      sizes1 == IF InList(sizes, original_path)
                                THEN ListRemove(sizes, original_path) ELSE sizes
                      parts == DictGet(ix2.partial_hash_index, partial_hash, <<>>)
                      parts1 == IF InList(parts, original_path)
                                THEN ListRemove(parts, original_path) ELSE parts
                  IN  Outcome([ix2 EXCEPT
                                 !.full_hash_index = DictPut(@, full_hash, file_path),
                                 !.size_index = DictPut(@, file_size, Append(sizes1, file_path)),
                                 !.partial_hash_index =
                                     DictPut(@, partial_hash, Append(parts1, file_path))],
                              FALSE,
                              HashResult(file_path, file_size, partial_hash, full_hash,
                                         "unique", NoPath))
        ELSE Outcome([ix2 EXCEPT
                        !.full_hash_index = DictPut(@, full_hash, file_path),
                        !.path_to_full_hash = DictPut(@, file_path, full_hash),
                        !.size_index = DictPut(@, file_size, Append(@[file_size], file_path)),
                        !.partial_hash_index =
                            DictPut(@, partial_hash, Append(@[partial_hash], file_path))],
                     FALSE,
                     HashResult(file_path, file_size, partial_hash, full_hash,
                                "unique", NoPath))

\* DeduplicationEngine.check_duplicate
CheckDup(ix, dsk, file_path) ==
    IF ~Exists(dsk, file_path)
    THEN Outcome(ix, TRUE, NoResult)       \* stat() raised: DeduplicationError
    ELSE
    LET file_size == Len(dsk[file_path]) IN
    IF file_size \notin DOMAIN ix.size_index
    THEN CheckStage1(ix, file_path, file_size)
    ELSE IF file_path \in unreadable
    THEN Outcome(ix, TRUE, NoResult)       \* partial_hasher.compute(file_path) raised
    ELSE
    LET partial_hash == PartialHashOf(dsk[file_path])
        ix1 == [ix EXCEPT !.path_to_partial_hash = DictPut(@, file_path, partial_hash)]
        candidates == DictGet(ix1.files_pending_partial, file_size, <<>>)
        ix2 == IF candidates # <<>>
               THEN LET h == HydratePartial(ix1, dsk, candidates)
                    IN  [h EXCEPT !.files_pending_partial = DictDel(@, file_size)]
               ELSE ix1
    IN  IF PartialEscapes(dsk, candidates)
        THEN \* the OSError leaves check_duplicate; the pending list stays
             Outcome(HydratePartial(ix1, dsk, candidates), TRUE, NoResult)
        ELSE
        IF partial_hash \notin DOMAIN ix2.partial_hash_index
        THEN Outcome([ix2 EXCEPT
                        !.size_index = DictPut(@, file_size, Append(@[file_size], file_path)),
                        !.partial_hash_index = DictPut(@, partial_hash, <<file_path>>)],
                     FALSE,
                     HashResult(file_path, file_size, partial_hash, NoHash,
                                "unique", NoPath))
        ELSE CheckStage3(ix2, dsk, file_path, file_size, partial_hash)

\* DeduplicationEngine.add_to_index
AddIdx(ix, dsk, file_path) ==
    IF CannotHash(dsk, file_path)
    THEN Outcome(ix, TRUE, NoResult)       \* stat() or a hasher raised
    ELSE
    LET file_size == Len(dsk[file_path])
        partial_hash == PartialHashOf(dsk[file_path])
        full_hash == FullHashOf(dsk[file_path])
    IN  Outcome([ix EXCEPT
                   !.size_index = DictPut(@, file_size, Append(DictGet(@, file_size, <<>>), file_path)),
                   !.partial_hash_index =
                       DictPut(@, partial_hash, Append(DictGet(@, partial_hash, <<>>), file_path)),
                   !.full_hash_index =
                       IF full_hash \in DOMAIN @ THEN @ ELSE DictPut(@, full_hash, file_path),
                   !.path_to_full_hash = DictPut(@, file_path, full_hash),
                   !.path_to_partial_hash = DictPut(@, file_path, partial_hash)],
                FALSE,
                HashResult(file_path, file_size, partial_hash, full_hash, "unique", NoPath))

\* the engine's variables after a call with outcome o
SetIndex(o) ==
    /\ size_index' = o.ix.size_index
    /\ files_pending_partial' = o.ix.files_pending_partial
    /\ partial_hash_index' = o.ix.partial_hash_index
    /\ full_hash_index' = o.ix.full_hash_index
    /\ path_to_partial_hash' = o.ix.path_to_partial_hash
    /\ path_to_full_hash' = o.ix.path_to_full_hash

\* sum(len(v) for v in d.values()), over the keys given
RECURSIVE SumLen(_, _)
SumLen(d, keys) ==
    IF keys = {} THEN 0
    ELSE LET k == CHOOSE x \in keys : TRUE
         IN  Len(d[k]) + SumLen(d, keys \ {k})

\* DeduplicationEngine.get_stats: "total_files"
total_files(ix) == SumLen(ix.size_index, DOMAIN ix.size_index)

\* the paths the indexes list
IndexedPaths(ix) ==
    UNION {{ix.size_index[k][i] : i \in 1..Len(ix.size_index[k])} : k \in DOMAIN ix.size_index}
    \cup UNION {{ix.partial_hash_index[k][i] : i \in 1..Len(ix.partial_hash_index[k])} :
                k \in DOMAIN ix.partial_hash_index}
    \cup {ix.full_hash_index[k] : k \in DOMAIN ix.full_hash_index}

\* "the index holds no file with this content": no listed path has the
\* content on disk, and no full hash of the content is recorded
HoldsNoFileWith(ix, dsk, content) ==
    /\ \A q \in IndexedPaths(ix) : Exists(dsk, q) => dsk[q] # content
    /\ FullHashOf(content) \notin DOMAIN ix.full_hash_index
    /\ \A q \in DOMAIN ix.path_to_full_hash : ix.path_to_full_hash[q] # FullHashOf(content)

\* the path recorded as the original of this content when it is no longer on
\* disk (NoPath when there is no such record)
StaleOriginal(ix, dsk, content) ==
    IF /\ FullHashOf(content) \in DOMAIN ix.full_hash_index
       /\ ~Exists(dsk, ix.full_hash_index[FullHashOf(content)])
    THEN ix.full_hash_index[FullHashOf(content)]
    ELSE NoPath

\* the latest check_duplicate call: its file, whether that file could be
\* read, the candidates of its size that were waiting for their partial hash
\* and could not be read, and whether the call raised
Call(path, own_readable, dead, raised) ==
    [path |-> path, own_readable |-> own_readable, dead |-> dead,
     raised |-> raised]

NoCall == Call(NoPath, FALSE, {}, FALSE)

\* DeduplicationEngine.__init__, and the history variables of the engine
InitEngine ==
    /\ size_index = EmptyDict
    /\ files_pending_partial = EmptyDict
    /\ partial_hash_index = EmptyDict
    /\ full_hash_index = EmptyDict
    /\ path_to_partial_hash = EmptyDict
    /\ path_to_full_hash = EmptyDict
    /\ result = NoResult
    /\ trail = <<>>
    /\ ncalls = 0
    /\ nchanges = 0
    /\ unreadable = {}
    /\ last_call = NoCall
    /\ partial_computed = EmptyDict

(***************************************************************************)
(* OrganizerEventHandler.mark_complete (monitoring/watcher.py), which the  *)
(* queue manager calls back through SmartFileOrganizer._on_file_complete.  *)
(***************************************************************************)
\* mark_complete: the in-flight set afterwards
MarkCompleteSet(ps, file_path) == ps \ {file_path}

\* mark_complete -> DebounceTracker.clear: the debounce table afterwards
\* (a variant that leaves the pop out)
DebounceClear_Keep(pend, file_path) == pend

DebounceClear(pend, file_path) == DictDel(pend, file_path)

(***************************************************************************)
(* ProcessingQueueManager (monitoring/queue_manager.py).                   *)
(***************************************************************************)
\* ProcessingTask(file_path=..., max_retries=...); failures and counted are
\* history: the number of processor calls for this task that failed, and the
\* number of times the task was added to stats.total_processed
ProcessingTask(file_path) ==
    [file_path |-> file_path, status |-> "pending", retry_count |-> 0,
     max_retries |-> MaxRetries, failures |-> 0, counted |-> 0]

\* ProcessingStats()
ProcessingStats ==
    [total_processed |-> 0, successful |-> 0, failed |-> 0,
     retried |-> 0, pending |-> 0, processing |-> 0]

\* a stop(wait=True) call: pc is "none" before the call, then "join",
\* "joined", "shutdown" and "returned"; in_flight and waiting are history: the
\* tasks inside _process_task and the tasks on a retry Timer when stop() was
\* called
StopCall(pc, in_flight, waiting) ==
    [pc |-> pc, in_flight |-> in_flight, waiting |-> waiting]

NoStop == StopCall("none", {}, {})

\* ProcessingQueueManager.__init__ and start(): the dispatcher thread runs
InitQueueState ==
    /\ running = TRUE
    /\ worker_thread = "alive"
    /\ executor_shutdown = FALSE
    /\ stop_pc = NoStop
    /\ tasks = <<>>
    /\ queue = <<>>
    /\ active_tasks = EmptyDict
    /\ stats = ProcessingStats
    /\ timers = {}
    /\ submitted = <<>>
    /\ executing = {}
    /\ task_pc = EmptyDict

\* ProcessingTask.can_retry (a variant that allows one retry more)
can_retry_OffByOne(task) == task.retry_count <= task.max_retries

\* ProcessingTask.can_retry
can_retry(task) == task.retry_count < task.max_retries

\* ProcessingTask.increment_retry
increment_retry(task) ==
    [task EXCEPT !.retry_count = @ + 1, !.status = "retrying"]

\* ProcessingQueueManager.put
QueuePut(file_path) ==
    /\ tasks' = Append(tasks, ProcessingTask(file_path))
    /\ active_tasks' = DictPut(active_tasks, file_path, Len(tasks) + 1)
    /\ stats' = [stats EXCEPT !.pending = @ + 1]
    /\ queue' = Append(queue, Len(tasks) + 1)
    /\ UNCHANGED <<timers, submitted, executing>>

\* ProcessingQueueManager._process_loop, one iteration that gets a task;
\* executor.submit raises RuntimeError after shutdown, which the loop logs
ProcessLoop ==
    /\ worker_thread = "alive"
    /\ queue # <<>>
    /\ queue' = Tail(queue)
    /\ stats' = [stats EXCEPT !.pending = @ - 1, !.processing = @ + 1]
    /\ submitted' = IF executor_shutdown THEN submitted
                    ELSE Append(submitted, Head(queue))
    /\ UNCHANGED <<tasks, active_tasks, timers, executing>>
    /\ UNCHANGED <<disk, dedupVars, dedupHist, nchanges, gateVars, pipeVars>>
    /\ UNCHANGED <<ledgerHist, workVars>>
    /\ UNCHANGED ctlVars

\* a worker of the executor picks the next submitted task:
\* _process_task up to the processor call (task.mark_processing)
TaskStart ==
    /\ submitted # <<>>
    /\ Cardinality(executing) < MaxWorkers
    /\ LET t == Head(submitted) IN
       /\ submitted' = Tail(submitted)
       /\ executing' = executing \cup {t}
       /\ tasks' = [tasks EXCEPT ![t].status = "processing"]
    /\ UNCHANGED <<queue, active_tasks, stats, timers>>
    /\ UNCHANGED <<disk, dedupVars, dedupHist, nchanges, gateVars, pipeVars>>
    /\ UNCHANGED <<ledgerHist, workVars>>
    /\ UNCHANGED ctlVars

\* _process_task: the processor returned True; task.mark_completed and
\* _handle_success, with the completion callback (mark_complete)
TaskSucceed(t) ==
    /\ t \in executing
    /\ executing' = executing \ {t}
    /\ tasks' = [tasks EXCEPT ![t].status = "completed", ![t].counted = @ + 1]
    /\ stats' = [stats EXCEPT !.processing = @ - 1,
                              !.total_processed = @ + 1,
                              !.successful = @ + 1]
    /\ active_tasks' = DictDel(active_tasks, tasks[t].file_path)
    /\ processing_set' = MarkCompleteSet(processing_set, tasks[t].file_path)
    /\ pending' = DebounceClear(pending, tasks[t].file_path)
    /\ UNCHANGED <<queue, timers, submitted>>
    /\ UNCHANGED <<now, settlers, processing_queue, enq_log, nevents>>
    /\ UNCHANGED <<disk, dedupVars, dedupHist, nchanges, pipeVars, ledgerHist, workVars>>
    /\ UNCHANGED ctlVars

\* _process_task: the processor returned False or raised; _handle_failure
\* (a variant in which the exception escapes _process_task: the worker drops
\* the task and nothing handles the failure)
TaskFail_Uncaught(t) ==
    /\ t \in executing
    /\ executing' = executing \ {t}
    /\ tasks' = [tasks EXCEPT ![t].failures = @ + 1]
    /\ UNCHANGED <<queue, active_tasks, stats, timers, submitted>>
    /\ UNCHANGED <<disk, dedupVars, dedupHist, nchanges, gateVars, pipeVars>>
    /\ UNCHANGED <<ledgerHist, workVars>>
    /\ UNCHANGED ctlVars

TaskFail(t) ==
    /\ t \in executing
    /\ executing' = executing \ {t}
    /\ LET task == [tasks[t] EXCEPT !.failures = @ + 1] IN
       IF can_retry(task)
       THEN /\ tasks' = [tasks EXCEPT ![t] = increment_retry(task)]
            /\ stats' = [stats EXCEPT !.processing = @ - 1,
                                      !.retried = @ + 1,
                                      !.pending = @ + 1]
            /\ timers' = timers \cup {t}
            /\ UNCHANGED active_tasks
       ELSE /\ tasks' = [tasks EXCEPT ![t] = [task EXCEPT !.status = "failed",
                                                       !.counted = @ + 1]]
            /\ stats' = [stats EXCEPT !.processing = @ - 1,
                                      !.total_processed = @ + 1,
                                      !.failed = @ + 1]
            /\ active_tasks' = DictDel(active_tasks, task.file_path)
            /\ UNCHANGED timers
    /\ UNCHANGED <<queue, submitted>>
    /\ UNCHANGED <<disk, dedupVars, dedupHist, nchanges, gateVars, pipeVars>>
    /\ UNCHANGED <<ledgerHist, workVars>>
    /\ UNCHANGED ctlVars

\* the retry Timer of _handle_failure fires: self.queue.put(task)
\* (a variant in which the timer's callback does not put the task back)
TimerFire_Lost(t) ==
    /\ t \in timers
    /\ timers' = timers \ {t}
    /\ UNCHANGED <<tasks, queue, active_tasks, stats, submitted, executing>>
    /\ UNCHANGED <<disk, dedupVars, dedupHist, nchanges, gateVars, pipeVars>>
    /\ UNCHANGED <<ledgerHist, workVars>>
    /\ UNCHANGED ctlVars

TimerFire(t) ==
    /\ t \in timers
    /\ timers' = timers \ {t}
    /\ queue' = Append(queue, t)
    /\ UNCHANGED <<tasks, active_tasks, stats, submitted, executing>>
    /\ UNCHANGED <<disk, dedupVars, dedupHist, nchanges, gateVars, pipeVars>>
    /\ UNCHANGED <<ledgerHist, workVars>>
    /\ UNCHANGED ctlVars

\* stop(): "if not self._running: return; self._running = False"
Stop ==
    /\ stop_pc.pc = "none"
    /\ running
    /\ running' = FALSE
    /\ stop_pc' = StopCall("join", executing, timers)
    /\ UNCHANGED <<worker_thread, executor_shutdown, chain, unreadable, last_call, partial_computed, task_pc, last_event>>
    /\ UNCHANGED <<disk, dedupVars, dedupHist, nchanges, gateVars, queueVars, pipeVars>>
    /\ UNCHANGED <<ledgerHist, workVars>>

\* _process_loop: the test "while self._running" fails and the thread ends
LoopExit ==
    /\ worker_thread = "alive"
    /\ ~running
    /\ worker_thread' = "exited"
    /\ UNCHANGED <<running, executor_shutdown, stop_pc, chain, unreadable, last_call, partial_computed, task_pc, last_event>>
    /\ UNCHANGED <<disk, dedupVars, dedupHist, nchanges, gateVars, queueVars, pipeVars>>
    /\ UNCHANGED <<ledgerHist, workVars>>

\* stop(): self._worker_thread.join(timeout=timeout) returns, the thread
\* ended or the timeout over
StopJoined ==
    /\ stop_pc.pc = "join"
    /\ stop_pc' = [stop_pc EXCEPT !.pc = "joined"]
    /\ UNCHANGED <<running, worker_thread, executor_shutdown, chain, unreadable, last_call, partial_computed, task_pc, last_event>>
    /\ UNCHANGED <<disk, dedupVars, dedupHist, nchanges, gateVars, queueVars, pipeVars>>
    /\ UNCHANGED <<ledgerHist, workVars>>

\* stop(): self.executor.shutdown(wait=wait) is entered: no further submit
StopShutdown ==
    /\ stop_pc.pc = "joined"
    /\ executor_shutdown' = TRUE
    /\ stop_pc' = [stop_pc EXCEPT !.pc = "shutdown"]
    /\ UNCHANGED <<running, worker_thread, chain, unreadable, last_call, partial_computed, task_pc, last_event>>
    /\ UNCHANGED <<disk, dedupVars, dedupHist, nchanges, gateVars, queueVars, pipeVars>>
    /\ UNCHANGED <<ledgerHist, workVars>>

\* stop(): executor.shutdown(wait=True) returns, and then stop() (a variant
\* for shutdown(wait=False), which returns at once)
StopReturn_NoWait ==
    /\ stop_pc.pc = "shutdown"
    /\ stop_pc' = [stop_pc EXCEPT !.pc = "returned"]
    /\ UNCHANGED <<running, worker_thread, executor_shutdown, chain, unreadable, last_call, partial_computed, task_pc, last_event>>
    /\ UNCHANGED <<disk, dedupVars, dedupHist, nchanges, gateVars, queueVars, pipeVars>>
    /\ UNCHANGED <<ledgerHist, workVars>>

\* shutdown(wait=True) joins the workers, which first run every work item
\* submitted before the shutdown
StopReturn ==
    /\ stop_pc.pc = "shutdown"
    /\ submitted = <<>>
    /\ executing = {}
    /\ stop_pc' = [stop_pc EXCEPT !.pc = "returned"]
    /\ UNCHANGED <<running, worker_thread, executor_shutdown, chain, unreadable, last_call, partial_computed, task_pc, last_event>>
    /\ UNCHANGED <<disk, dedupVars, dedupHist, nchanges, gateVars, queueVars, pipeVars>>
    /\ UNCHANGED <<ledgerHist, workVars>>

\* the steps of the queue manager's own threads
QueueSteps ==
    \/ ProcessLoop
    \/ TaskStart
    \/ \E t \in executing : TaskSucceed(t)
    \/ \E t \in executing : TaskFail(t)
    \/ \E t \in timers : TimerFire(t)

\* whether a task is still to be attempted (it is not terminal)
Live(t) == tasks[t].status \in {"pending", "processing", "retrying"}

(***************************************************************************)
(* The same handlers followed statement by statement: each step is one     *)
(* locked section or one unlocked statement of put, _process_loop,         *)
(* _process_task, _handle_success and _handle_failure.  task_pc[t] is the  *)
(* position of the thread that is inside a handler for task t.             *)
(***************************************************************************)
\* everything outside the queue manager, which these steps leave alone
QueueStepFrame ==
    /\ UNCHANGED <<disk, dedupVars, dedupHist, nchanges, pipeVars, ledgerHist, workVars>>
    /\ UNCHANGED <<running, worker_thread, executor_shutdown, stop_pc, chain>>
    /\ UNCHANGED <<unreadable, last_call, partial_computed, last_event>>

\* put: the task is created and registered ("with self._tasks_lock")
PutRegister(file_path) ==
    /\ Len(tasks) < MaxTasks
    /\ tasks' = Append(tasks, ProcessingTask(file_path))
    /\ active_tasks' = DictPut(active_tasks, file_path, Len(tasks) + 1)
    /\ task_pc' = DictPut(task_pc, Len(tasks) + 1, "put_registered")
    /\ UNCHANGED <<queue, stats, timers, submitted, executing, gateVars>>
    /\ QueueStepFrame

\* put: "with self._stats_lock: self.stats.pending += 1"
PutCount(t) ==
    /\ DictGet(task_pc, t, "") = "put_registered"
    /\ stats' = [stats EXCEPT !.pending = @ + 1]
    /\ task_pc' = DictPut(task_pc, t, "put_counted")
    /\ UNCHANGED <<tasks, queue, active_tasks, timers, submitted, executing, gateVars>>
    /\ QueueStepFrame

\* put: "self.queue.put(task)"
PutEnqueue(t) ==
    /\ DictGet(task_pc, t, "") = "put_counted"
    /\ queue' = Append(queue, t)
    /\ task_pc' = DictDel(task_pc, t)
    /\ UNCHANGED <<tasks, active_tasks, stats, timers, submitted, executing, gateVars>>
    /\ QueueStepFrame

\* whether the dispatcher thread holds a task it has taken off the queue
DispatcherBusy ==
    \E t \in DOMAIN task_pc : task_pc[t] \in {"dequeued", "dispatch_counted"}

\* _process_loop: "task = self.queue.get(timeout=1.0)"
LoopGet ==
    /\ worker_thread = "alive"
    /\ ~DispatcherBusy
    /\ queue # <<>>
    /\ queue' = Tail(queue)
    /\ task_pc' = DictPut(task_pc, Head(queue), "dequeued")
    /\ UNCHANGED <<tasks, active_tasks, stats, timers, submitted, executing, gateVars>>
    /\ QueueStepFrame

\* _process_loop: "with self._stats_lock: pending -= 1; processing += 1"
LoopCount(t) ==
    /\ DictGet(task_pc, t, "") = "dequeued"
    /\ stats' = [stats EXCEPT !.pending = @ - 1, !.processing = @ + 1]
    /\ task_pc' = DictPut(task_pc, t, "dispatch_counted")
    /\ UNCHANGED <<tasks, queue, active_tasks, timers, submitted, executing, gateVars>>
    /\ QueueStepFrame

\* _process_loop: "self.executor.submit(self._process_task, task)"
LoopSubmit(t) ==
    /\ DictGet(task_pc, t, "") = "dispatch_counted"
    /\ submitted' = IF executor_shutdown THEN submitted ELSE Append(submitted, t)
    /\ task_pc' = DictDel(task_pc, t)
    /\ UNCHANGED <<tasks, queue, active_tasks, stats, timers, executing, gateVars>>
    /\ QueueStepFrame

\* _process_task: the processor returned True: task.mark_completed()
SucceedMark(t) ==
    /\ t \in executing
    /\ t \notin DOMAIN task_pc
    /\ tasks' = [tasks EXCEPT ![t].status = "completed"]
    /\ task_pc' = DictPut(task_pc, t, "success_marked")
    /\ UNCHANGED <<queue, active_tasks, stats, timers, submitted, executing, gateVars>>
    /\ QueueStepFrame

\* _handle_success: "with self._stats_lock: processing -= 1;
\* total_processed += 1; successful += 1"
SucceedCount(t) ==
    /\ DictGet(task_pc, t, "") = "success_marked"
    /\ stats' = [stats EXCEPT !.processing = @ - 1,
                              !.total_processed = @ + 1,
                              !.successful = @ + 1]
    /\ tasks' = [tasks EXCEPT ![t].counted = @ + 1]
    /\ task_pc' = DictPut(task_pc, t, "success_counted")
    /\ UNCHANGED <<queue, active_tasks, timers, submitted, executing, gateVars>>
    /\ QueueStepFrame

\* _handle_success: the pop from _active_tasks and the completion callback
\* (mark_complete); the worker is free again
SucceedPop(t) ==
    /\ DictGet(task_pc, t, "") = "success_counted"
    /\ active_tasks' = DictDel(active_tasks, tasks[t].file_path)
    /\ processing_set' = MarkCompleteSet(processing_set, tasks[t].file_path)
    /\ pending' = DebounceClear(pending, tasks[t].file_path)
    /\ executing' = executing \ {t}
    /\ task_pc' = DictDel(task_pc, t)
    /\ UNCHANGED <<tasks, queue, stats, timers, submitted>>
    /\ UNCHANGED <<now, settlers, processing_queue, enq_log, nevents>>
    /\ QueueStepFrame

\* _handle_failure, entered because the processor returned False or raised:
\* "with self._stats_lock: self.stats.processing -= 1"
FailUncount(t) ==
    /\ t \in executing
    /\ t \notin DOMAIN task_pc
    /\ tasks' = [tasks EXCEPT ![t].failures = @ + 1]
    /\ stats' = [stats EXCEPT !.processing = @ - 1]
    /\ task_pc' = DictPut(task_pc, t, "failure_uncounted")
    /\ UNCHANGED <<queue, active_tasks, timers, submitted, executing, gateVars>>
    /\ QueueStepFrame

\* _handle_failure: "if task.can_retry(): task.increment_retry()", else
\* "task.mark_failed(error)"
FailDecide(t) ==
    /\ DictGet(task_pc, t, "") = "failure_uncounted"
    /\ IF can_retry(tasks[t])
       THEN /\ tasks' = [tasks EXCEPT ![t] = increment_retry(tasks[t])]
            /\ task_pc' = DictPut(task_pc, t, "retry_marked")
       ELSE /\ tasks' = [tasks EXCEPT ![t].status = "failed"]
            /\ task_pc' = DictPut(task_pc, t, "failed_marked")
    /\ UNCHANGED <<queue, active_tasks, stats, timers, submitted, executing, gateVars>>
    /\ QueueStepFrame

\* _handle_failure, retry branch: "with self._stats_lock: retried += 1;
\* pending += 1" (a variant that also counts the attempt as processed)
RetryCount_AsProcessed(t) ==
    /\ DictGet(task_pc, t, "") = "retry_marked"
    /\ stats' = [stats EXCEPT !.retried = @ + 1, !.pending = @ + 1,
                              !.total_processed = @ + 1]
    /\ tasks' = [tasks EXCEPT ![t].counted = @ + 1]
    /\ task_pc' = DictPut(task_pc, t, "retry_counted")
    /\ UNCHANGED <<queue, active_tasks, timers, submitted, executing, gateVars>>
    /\ QueueStepFrame

RetryCount(t) ==
    /\ DictGet(task_pc, t, "") = "retry_marked"
    /\ stats' = [stats EXCEPT !.retried = @ + 1, !.pending = @ + 1]
    /\ task_pc' = DictPut(task_pc, t, "retry_counted")
    /\ UNCHANGED <<tasks, queue, active_tasks, timers, submitted, executing, gateVars>>
    /\ QueueStepFrame

\* _handle_failure, retry branch: the Timer is started; the worker is free
RetryTimer(t) ==
    /\ DictGet(task_pc, t, "") = "retry_counted"
    /\ timers' = timers \cup {t}
    /\ executing' = executing \ {t}
    /\ task_pc' = DictDel(task_pc, t)
    /\ UNCHANGED <<tasks, queue, active_tasks, stats, submitted, gateVars>>
    /\ QueueStepFrame

\* _handle_failure, last branch: "with self._stats_lock: total_processed += 1;
\* failed += 1"
FailCount(t) ==
    /\ DictGet(task_pc, t, "") = "failed_marked"
    /\ stats' = [stats EXCEPT !.total_processed = @ + 1, !.failed = @ + 1]
    /\ tasks' = [tasks EXCEPT ![t].counted = @ + 1]
    /\ task_pc' = DictPut(task_pc, t, "failed_counted")
    /\ UNCHANGED <<queue, active_tasks, timers, submitted, executing, gateVars>>
    /\ QueueStepFrame

\* _handle_failure, last branch: the pop from _active_tasks; the worker is
\* free again
FailPop(t) ==
    /\ DictGet(task_pc, t, "") = "failed_counted"
    /\ active_tasks' = DictDel(active_tasks, tasks[t].file_path)
    /\ executing' = executing \ {t}
    /\ task_pc' = DictDel(task_pc, t)
    /\ UNCHANGED <<tasks, queue, stats, timers, submitted, gateVars>>
    /\ QueueStepFrame

\* ProcessingQueueManager.is_idle
is_idle == stats.pending = 0 /\ stats.processing = 0

(***************************************************************************)
(* The event gate: DebounceTracker, FileSettlingChecker and                *)
(* OrganizerEventHandler (monitoring/watcher.py).                          *)
(***************************************************************************)
\* The paths under the watched directory and the contents written there
\* (a file of size 0, 1 or 2).
GatePaths == {Path("watch", "a", 0)}

GateContents == {<<>>, <<1>>, <<1, 1>>}

\* time.time() when the program starts: far from 0, the default of
\* _pending.get(file_path, 0)
StartTime == DebounceWindow

\* OrganizerEventHandler.__init__
InitGateState ==
    /\ now = StartTime
    /\ pending = EmptyDict
    /\ processing_set = {}
    /\ settlers = <<>>
    /\ processing_queue = <<>>
    /\ enq_log = <<>>
    /\ nevents = 0
    /\ last_event = [path |-> NoPath, ignored |-> FALSE, accepted |-> FALSE]

\* the tokens of a file name, as far as the glob patterns tell them apart
NameTokens(name) ==
    CASE name = "a.tmp" -> <<"a", ".tmp">>
      [] name = "~$a" -> <<"~$", "a">>
      [] name = ".DS_Store" -> <<".DS_Store">>
      [] OTHER -> <<name>>

\* WatcherConfig.ignore_patterns, the default list; "*" is the wildcard
ignore_patterns ==
    << <<"*", ".tmp">>, <<"*", ".crdownload">>, <<"~$", "*">>, <<".DS_Store">>,
       <<"Thumbs.db">>, <<"*", ".part">> >>

\* fnmatch(name, pattern): "*" stands for any run of tokens
RECURSIVE fnmatch(_, _)
fnmatch(name, pattern) ==
    IF pattern = <<>> THEN name = <<>>
    ELSE IF Head(pattern) = "*"
         THEN \E k \in 0..Len(name) :
                  fnmatch(SubSeq(name, k + 1, Len(name)), Tail(pattern))
         ELSE /\ name # <<>>
              /\ Head(name) = Head(pattern)
              /\ fnmatch(Tail(name), Tail(pattern))

\* OrganizerEventHandler._should_ignore with the test left out
should_ignore_Never(file_path) == FALSE

\* OrganizerEventHandler._should_ignore
should_ignore(file_path) ==
    \E i \in 1..Len(ignore_patterns) :
        fnmatch(NameTokens(file_path.name), ignore_patterns[i])

\* DebounceTracker.should_process: the test
should_process(pend, file_path, current_time) ==
    current_time - DictGet(pend, file_path, 0) >= DebounceWindow

\* OrganizerEventHandler._mark_processing: whether it returns True
\* (a variant that does not look at the set)
MarkProcessing_NoTest(ps, file_path) == TRUE

MarkProcessing(ps, file_path) == file_path \notin ps

\* a wait_and_enqueue thread at its start; etime is the arrival time of its event
Settler(file_path, etime) ==
    [path |-> file_path, etime |-> etime, pc |-> "start",
     previous_size |-> -1, stable_count |-> 0, checks |-> 0, due |-> etime,
     prev2 |-> -1, opened |-> FALSE]

\* remove the i-th thread
DropSettler(i) == SubSeq(settlers, 1, i - 1) \o SubSeq(settlers, i + 1, Len(settlers))

\* is_file_ready, after the loop: "stable_count >= 1 and previous_size > 0"
\* (a variant that forgets the stability count)
ReadyAfterLoop_NoStable(th) == th.previous_size > 0

ReadyAfterLoop(th) == th.stable_count >= 1 /\ th.previous_size > 0

\* on_created / on_modified -> _handle_file_event
WatchEvent(p) ==
    /\ nevents < MaxEvents
    /\ nevents' = nevents + 1
    /\ last_event' = [path |-> p, ignored |-> should_ignore(p),
                      accepted |-> /\ ~should_ignore(p)
                                   /\ p \notin processing_set
                                   /\ should_process(pending, p, now)]
    /\ IF should_ignore(p)
       THEN UNCHANGED <<pending, settlers>>          \* matches an ignore pattern
       ELSE IF p \in processing_set
       THEN UNCHANGED <<pending, settlers>>          \* already processing
       ELSE IF ~should_process(pending, p, now)
       THEN UNCHANGED <<pending, settlers>>          \* debounced
       ELSE /\ pending' = DictPut(pending, p, now)
            /\ settlers' = Append(settlers, Settler(p, now))
    /\ UNCHANGED <<now, processing_set, processing_queue, enq_log>>
    /\ UNCHANGED <<disk, dedupVars, dedupHist, nchanges, queueVars, pipeVars>>
    /\ UNCHANGED <<ledgerHist, workVars>>
    /\ UNCHANGED <<running, worker_thread, executor_shutdown, stop_pc, chain>>
    /\ UNCHANGED <<unreadable, last_call, partial_computed, task_pc>>

\* wait_and_enqueue when wait_for_file returned False: debouncer.clear
SettleGiveUp(i) ==
    /\ settlers' = DropSettler(i)
    /\ pending' = DebounceClear(pending, settlers[i].path)
    /\ UNCHANGED <<processing_set, processing_queue, enq_log>>

\* is_file_ready: "if not file_path.exists(): return False"
SettleStart(i) ==
    /\ i \in 1..Len(settlers)
    /\ settlers[i].pc = "start"
    /\ IF Exists(disk, settlers[i].path)
       THEN /\ settlers' = [settlers EXCEPT ![i].pc = "loop"]
            /\ UNCHANGED <<pending, processing_set, processing_queue, enq_log>>
       ELSE SettleGiveUp(i)
    /\ UNCHANGED <<now, nevents>>
    /\ UNCHANGED <<disk, dedupVars, dedupHist, nchanges, queueVars, pipeVars>>
    /\ UNCHANGED <<ledgerHist, workVars>>
    /\ UNCHANGED ctlVars

\* is_file_ready: one iteration of the loop (a size sample, then the sleep);
\* opens is whether the open-for-read probe succeeds if it is made
SettleSample(i, opens) ==
    /\ i \in 1..Len(settlers)
    /\ settlers[i].pc = "loop"
    /\ settlers[i].checks < SettleMaxChecks
    /\ now >= settlers[i].due
    /\ LET th == settlers[i] IN
       IF ~Exists(disk, th.path)
       THEN SettleGiveUp(i)                          \* stat() raised
       ELSE LET current_size == Len(disk[th.path])
                stable == current_size = th.previous_size /\ current_size > 0
                probe == stable /\ th.stable_count + 1 >= StabilityChecks
                th1 == [th EXCEPT !.prev2 = th.previous_size,
                                  !.previous_size = current_size,
                                  !.checks = @ + 1,
                                  !.due = now + 1]
            IN  /\ UNCHANGED <<pending, processing_set, processing_queue, enq_log>>
                /\ IF probe /\ opens
                   THEN settlers' = [settlers EXCEPT ![i] =
                            [th1 EXCEPT !.pc = "ready", !.opened = TRUE]]
                   ELSE settlers' = [settlers EXCEPT ![i] =
                            [th1 EXCEPT !.stable_count =
                                 IF stable /\ ~probe THEN @ + 1 ELSE 0]]
    /\ UNCHANGED <<now, nevents>>
    /\ UNCHANGED <<disk, dedupVars, dedupHist, nchanges, queueVars, pipeVars>>
    /\ UNCHANGED <<ledgerHist, workVars>>
    /\ UNCHANGED ctlVars

\* is_file_ready: the loop ran max_checks times
SettleTimeout(i) ==
    /\ i \in 1..Len(settlers)
    /\ settlers[i].pc = "loop"
    /\ settlers[i].checks = SettleMaxChecks
    /\ now >= settlers[i].due
    /\ IF ReadyAfterLoop(settlers[i])
       THEN /\ settlers' = [settlers EXCEPT ![i].pc = "ready"]
            /\ UNCHANGED <<pending, processing_set, processing_queue, enq_log>>
       ELSE SettleGiveUp(i)
    /\ UNCHANGED <<now, nevents>>
    /\ UNCHANGED <<disk, dedupVars, dedupHist, nchanges, queueVars, pipeVars>>
    /\ UNCHANGED <<ledgerHist, workVars>>
    /\ UNCHANGED ctlVars

\* wait_and_enqueue when wait_for_file returned True:
\* "if self._mark_processing(file_path): self.queue.put(file_path)"
SettleEnqueue(i) ==
    /\ i \in 1..Len(settlers)
    /\ settlers[i].pc = "ready"
    /\ settlers' = DropSettler(i)
    /\ IF MarkProcessing(processing_set, settlers[i].path)
       THEN /\ processing_set' = processing_set \cup {settlers[i].path}
            /\ processing_queue' = Append(processing_queue, settlers[i].path)
            /\ enq_log' = Append(enq_log, [path |-> settlers[i].path,
                                           etime |-> settlers[i].etime,
                                           last |-> settlers[i].previous_size,
                                           before |-> settlers[i].prev2,
                                           checks |-> settlers[i].checks,
                                           opened |-> settlers[i].opened])
       ELSE UNCHANGED <<processing_set, processing_queue, enq_log>>
    /\ UNCHANGED <<now, pending, nevents>>
    /\ UNCHANGED <<disk, dedupVars, dedupHist, nchanges, queueVars, pipeVars>>
    /\ UNCHANGED <<ledgerHist, workVars>>
    /\ UNCHANGED ctlVars

\* SmartFileOrganizer._queue_bridge (main.py), one iteration that gets a path
QueueBridge ==
    /\ processing_queue # <<>>
    /\ processing_queue' = Tail(processing_queue)
    /\ QueuePut(Head(processing_queue))
    /\ UNCHANGED <<now, pending, processing_set, settlers, enq_log, nevents>>
    /\ UNCHANGED <<disk, dedupVars, dedupHist, nchanges, pipeVars, ledgerHist, workVars>>
    /\ UNCHANGED ctlVars

\* time passes
Tick ==
    /\ now < StartTime + MaxTicks
    /\ now' = now + 1
    /\ UNCHANGED <<pending, processing_set, settlers, processing_queue, enq_log, nevents>>
    /\ UNCHANGED <<disk, dedupVars, dedupHist, nchanges, queueVars, pipeVars>>
    /\ UNCHANGED <<ledgerHist, workVars>>
    /\ UNCHANGED ctlVars

\* the environment writes the watched file (creates it, grows it, replaces it)
GateWrite(p, c) ==
    /\ nchanges < MaxGateChanges
    /\ ~(Exists(disk, p) /\ disk[p] = c)
    /\ disk' = DictPut(disk, p, c)
    /\ nchanges' = nchanges + 1
    /\ UNCHANGED <<dedupVars, dedupHist, gateVars, queueVars, pipeVars, ledgerHist, workVars>>
    /\ UNCHANGED ctlVars

\* the watched file goes away (the pipeline moved it, or it was deleted)
GateRemove(p) ==
    /\ nchanges < MaxGateChanges
    /\ Exists(disk, p)
    /\ disk' = DictDel(disk, p)
    /\ nchanges' = nchanges + 1
    /\ UNCHANGED <<dedupVars, dedupHist, gateVars, queueVars, pipeVars, ledgerHist, workVars>>
    /\ UNCHANGED ctlVars

(***************************************************************************)
(* FileOperations (actions/file_operations.py).  A Path is a directory, a  *)
(* file name and the counter suffix that conflict resolution gave the name *)
(* (0: none).                                                              *)
(***************************************************************************)
\* "raise FileProcessingError"
Raised == [raised |-> TRUE, disk |-> EmptyDict, dest |-> NoPath]

\* _resolve_conflict, the loop: the first free stem_counter name, or NoPath
\* where the code raises "Too many files with same name"
RECURSIVE ResolveFrom(_, _, _)
ResolveFrom(dsk, dest_path, counter) ==
    LET new_path == [dest_path EXCEPT !.n = counter] IN
    IF ~Exists(dsk, new_path) THEN new_path
    ELSE IF counter + 1 > RenameLimit THEN NoPath
    ELSE ResolveFrom(dsk, dest_path, counter + 1)

\* FileOperations._resolve_conflict
resolve_conflict(dsk, dest_path) ==
    IF ~Exists(dsk, dest_path) THEN dest_path ELSE ResolveFrom(dsk, dest_path, 1)

\* shutil.move(src, dst) between files: dst is replaced if it exists
ShutilMove(dsk, src, dst) == DictPut(DictDel(dsk, src), dst, dsk[src])

\* FileOperations.move_file(source, dest_dir)
move_file(dsk, source, dest_dir) ==
    IF ~Exists(dsk, source) THEN Raised
    ELSE LET dest_path == resolve_conflict(dsk, Path(dest_dir, source.name, 0)) IN
         IF dest_path = NoPath THEN Raised
         ELSE [raised |-> FALSE, disk |-> ShutilMove(dsk, source, dest_path),
               dest |-> dest_path]

(***************************************************************************)
(* ConflictResolver (actions/conflict_resolver.py), the RENAME strategy.   *)
(***************************************************************************)
\* the suffix of the fallback name stem_<timestamp>: datetime.now() formatted
\* "%Y%m%d_%H%M%S", one name that is not a counter
Timestamp == -1

\* _generate_unique_name, the loop: the first free stem_counter name, or the
\* timestamp name once the counter passes the limit
RECURSIVE UniqueFrom(_, _, _)
UniqueFrom(dsk, path, counter) ==
    LET new_path == [path EXCEPT !.n = counter] IN
    IF ~Exists(dsk, new_path) THEN new_path
    ELSE IF counter + 1 > UniqueNameLimit THEN [path EXCEPT !.n = Timestamp]
    ELSE UniqueFrom(dsk, path, counter + 1)

\* ConflictResolver._generate_unique_name
generate_unique_name(dsk, path) == UniqueFrom(dsk, path, 1)

\* ConflictResolver.resolve under ConflictStrategy.RENAME: the final path
resolve(dsk, dest_path) ==
    IF ~Exists(dsk, dest_path) THEN dest_path ELSE generate_unique_name(dsk, dest_path)

(***************************************************************************)
(* HistoryTracker (actions/history_tracker.py).  An entry's timestamp and  *)
(* subcategory are left out: nothing reads them back.                      *)
(***************************************************************************)
\* HistoryEntry
HistoryEntry(id, source, destination, category, file_size) ==
    [id |-> id, operation |-> "move", source_path |-> source,
     dest_path |-> destination, category |-> category,
     file_size |-> file_size, can_undo |-> TRUE]

\* None, where an Optional[HistoryEntry] is returned
NoEntry == [id |-> 0, operation |-> "none", source_path |-> NoPath,
            dest_path |-> NoPath, category |-> "", file_size |-> 0,
            can_undo |-> FALSE]

\* the fields of a HistoryEntry that the model keeps, in declaration order
EntryFields == <<"id", "operation", "source_path", "dest_path", "category",
                 "file_size", "can_undo">>

\* HistoryEntry.to_dict (asdict) as json.dump writes it: the key/value pairs
\* in field order (a variant that leaves can_undo out)
to_dict_NoFlag(entry) ==
    [i \in 1..(Len(EntryFields) - 1) |-> <<EntryFields[i], entry[EntryFields[i]]>>]

to_dict(entry) ==
    [i \in 1..Len(EntryFields) |-> <<EntryFields[i], entry[EntryFields[i]]>>]

\* the value of key k in the pairs d, or the default
KeyValue(d, k, default) ==
    IF \E i \in 1..Len(d) : d[i][1] = k
    THEN d[CHOOSE i \in 1..Len(d) : d[i][1] = k][2]
    ELSE default

\* HistoryEntry.from_dict: cls(**data), with the dataclass defaults for the
\* keys that have one (the keys without a default are always written)
\* (a variant that does not read can_undo back)
from_dict_FlagReset(d) ==
    [id |-> KeyValue(d, "id", 0),
     operation |-> KeyValue(d, "operation", "none"),
     source_path |-> KeyValue(d, "source_path", NoPath),
     dest_path |-> KeyValue(d, "dest_path", NoPath),
     category |-> KeyValue(d, "category", ""),
     file_size |-> KeyValue(d, "file_size", 0),
     can_undo |-> TRUE]

from_dict(d) ==
    [id |-> KeyValue(d, "id", 0),
     operation |-> KeyValue(d, "operation", "none"),
     source_path |-> KeyValue(d, "source_path", NoPath),
     dest_path |-> KeyValue(d, "dest_path", NoPath),
     category |-> KeyValue(d, "category", ""),
     file_size |-> KeyValue(d, "file_size", 0),
     can_undo |-> KeyValue(d, "can_undo", TRUE)]

\* the ledger file: absent, not parseable as JSON, or a JSON document
NoFile == [kind |-> "none", next_id |-> 0, entries |-> <<>>]

Garbage == [kind |-> "garbage", next_id |-> 0, entries |-> <<>>]

\* _save_history: the document written for tracker state L
JsonDump(L) ==
    [kind |-> "json", next_id |-> L.next_id,
     entries |-> [i \in 1..Len(L.history) |-> to_dict(L.history[i])]]

\* HistoryTracker.__init__ and _load_history: the tracker state for a ledger
\* file; an unparseable file is logged and leaves the state of __init__
load_history(file) ==
    IF file.kind = "json"
    THEN [history |-> [i \in 1..Len(file.entries) |-> from_dict(file.entries[i])],
          next_id |-> file.next_id]
    ELSE [history |-> <<>>, next_id |-> 1]

\* whether __init__ raises for a ledger file: _load_history catches
\* json.JSONDecodeError
load_raises(file) == FALSE

\* the tracker's state
Ledger == [history |-> history, next_id |-> next_id]

\* _save_history: trims _history to its last MAX_HISTORY_SIZE entries
\* (a variant that keeps the first MAX_HISTORY_SIZE entries)
save_history_KeepOldest(L) ==
    IF Len(L.history) > MAX_HISTORY_SIZE
    THEN [L EXCEPT !.history = SubSeq(@, 1, MAX_HISTORY_SIZE)]
    ELSE L

save_history(L) ==
    IF Len(L.history) > MAX_HISTORY_SIZE
    THEN [L EXCEPT !.history = SubSeq(@, Len(@) - MAX_HISTORY_SIZE + 1, Len(@))]
    ELSE L

\* the tracker after a call that ended with _save_history, and the file written
SetLedger(L) ==
    /\ history' = L.history
    /\ next_id' = L.next_id
    /\ history_file' = JsonDump(L)

\* record_move: the entry it creates
NewEntry(L, dsk, source, destination, category) ==
    LET file_size == IF Exists(dsk, destination) THEN Len(dsk[destination]) ELSE 0
    IN  HistoryEntry(L.next_id, source, destination, category, file_size)

\* HistoryTracker.record_move
record_move(L, dsk, source, destination, category) ==
    LET entry == NewEntry(L, dsk, source, destination, category)
    IN  save_history([history |-> Append(L.history, entry),
                      next_id |-> L.next_id + 1])

\* undo_last: the index of the last entry with can_undo and operation "move"
\* (0 when there is none)
LastUndoable(hist) ==
    LET S == {i \in 1..Len(hist) : hist[i].can_undo /\ hist[i].operation = "move"}
    IN  IF S = {} THEN 0 ELSE CHOOSE i \in S : \A k \in S : k <= i

\* _undo_entry: "entry.can_undo = False" (a variant that leaves the flag)
MarkUndone_Forgotten(entry) == entry

MarkUndone(entry) == [entry EXCEPT !.can_undo = FALSE]

\* HistoryTracker._undo_entry(entry, index): the filesystem and the tracker
\* afterwards, and the entry returned
undo_entry(L, dsk, index) ==
    LET entry == L.history[index]
        undone == MarkUndone(entry)
        L1 == save_history([L EXCEPT !.history[index] = undone])
    IN  IF ~Exists(dsk, entry.dest_path)
        THEN [disk |-> dsk, ledger |-> L1, returned |-> undone]
        ELSE [disk |-> ShutilMove(dsk, entry.dest_path, entry.source_path),
              ledger |-> L1, returned |-> undone]

(***************************************************************************)
(* SmartFileOrganizer.process_file (main.py), run by the workers of the    *)
(* queue manager.  A job is one process_file call.  What the rules engine  *)
(* and the classifiers answer for a file is an input: route says whether a *)
(* custom rule matched, the file was classified into a category, or it was *)
(* found sensitive.  The perceptual check of images is left out.           *)
(***************************************************************************)
WatchDir == "watch"

CategoryDir == "Documents"

RuleDir == "Rules"

VaultDir == "vault"

\* FileOperations.quarantine_file: base_directory / ".quarantine" / reason
QuarantineDir == ".quarantine/duplicate"

Routes == {"rule", "classified", "vault"}

\* _get_destination / _encrypt_and_vault / quarantine_file: the directory
DestDir(route) ==
    CASE route = "rule" -> RuleDir
      [] route = "classified" -> CategoryDir
      [] route = "vault" -> VaultDir
      [] route = "quarantine" -> QuarantineDir

\* the routes after which process_file calls history.record_move
Recorded(route) == route \in {"rule", "classified"}

\* a process_file(path) call at its start; seq, content, status, duplicate_of
\* and dest are history: the order of its check_duplicate call, the content
\* checked, the verdict, and where the file was moved
Job(file_path) ==
    [path |-> file_path, pc |-> "check", route |-> "none", ok |-> FALSE,
     seq |-> 0, content |-> <<>>, status |-> "none", duplicate_of |-> NoPath,
     dest |-> NoPath]

\* HistoryTracker.__init__ with no ledger file; no process_file call yet
InitPipeState ==
    /\ jobs = <<>>
    /\ history = <<>>
    /\ next_id = 1
    /\ history_file = NoFile
    /\ undo_result = NoEntry
    /\ nundo = 0

\* history of an undo call: which method, the index of the entry it selected
\* (0: none), whether that entry's destination was missing, whether a file
\* was moved
UndoCall(kind, sel, missing, moved) ==
    [kind |-> kind, sel |-> sel, missing |-> missing, moved |-> moved]

NoUndoCall == UndoCall("none", 0, FALSE, FALSE)

(***************************************************************************)
(* The classification chain (main.py process_file and _deep_classify, the  *)
(* rules engine and the tier classifiers).                                  *)
(*                                                                         *)
(* A file name is a sequence of tokens, "." separating the stem from the   *)
(* extension; all tokens are lower case, so the code's lower() leaves them *)
(* as they are.  A classification result keeps the fields the chain reads: *)
(* classification_tier, needs_deeper_analysis, is_sensitive, and in        *)
(* `origin` the tier whose category and subcategory it carries (for a rule *)
(* result, rule_id names the rule).                                        *)
(***************************************************************************)
\* most rules the engine holds
MaxRules == 2

\* largest number of hits of the best content pattern
MaxMatches == 3

ClassificationResult(tier, deeper, sensitive, origin, rule_id) ==
    [classification_tier |-> tier, needs_deeper_analysis |-> deeper,
     is_sensitive |-> sensitive, origin |-> origin, rule_id |-> rule_id]

\* None
NoClassification == ClassificationResult(-1, FALSE, FALSE, "none", 0)

\* the files of the watched folder: name and size in bytes
FileNames ==
    { <<"inv", ".", "pdf">>, <<"a", ".", "txt">>, <<"a", ".", "jpg">>,
      <<"a", ".", "csv">>, <<"inv">> }

FileSizes == {1, 3}

NoClassified == [name |-> <<>>, size |-> 0]

\* Path.suffix: the last "." and what follows it, nothing for a name that
\* has no "." after its first token or that ends with one
Suffix(name) ==
    LET dots == { i \in 2..Len(name) : name[i] = "." }
    IN  IF dots = {} THEN <<>>
        ELSE LET last == CHOOSE i \in dots : \A j \in dots : j <= i
             IN  IF last = Len(name) THEN <<>>
                 ELSE SubSeq(name, last, Len(name))

\* str.lstrip('.')
RECURSIVE LStripDot(_)
LStripDot(s) ==
    IF s # <<>> /\ Head(s) = "." THEN LStripDot(Tail(s)) ELSE s

\* pattern in filename
Contains(name, pat) ==
    \E i \in 1..(Len(name) + 1) :
        /\ i + Len(pat) - 1 <= Len(name)
        /\ SubSeq(name, i, i + Len(pat) - 1) = pat

StartsWith(name, pat) ==
    Len(pat) <= Len(name) /\ SubSeq(name, 1, Len(pat)) = pat

EndsWith(name, pat) ==
    /\ Len(pat) <= Len(name)
    /\ SubSeq(name, Len(name) - Len(pat) + 1, Len(name)) = pat

\* a user rule; a pattern is a text, for a size rule the number of bytes
CustomRule(id, match_type, pattern, priority, enabled, sensitive) ==
    [id |-> id, match_type |-> match_type, pattern |-> pattern,
     priority |-> priority, enabled |-> enabled, is_sensitive |-> sensitive]

\* int(pattern) for the pattern of a size rule, a text of one number
IntOf(pattern) ==
    CASE pattern = <<"1">> -> 1
      [] pattern = <<"2">> -> 2
      [] pattern = <<"3">> -> 3

\* the test of the rule's match type (regular expressions are left out)
PatternHolds(rule, file) ==
    CASE rule.match_type = "contains" -> Contains(file.name, rule.pattern)
      [] rule.match_type = "starts_with" -> StartsWith(file.name, rule.pattern)
      [] rule.match_type = "ends_with" -> EndsWith(file.name, rule.pattern)
      [] rule.match_type = "extension" ->
            LStripDot(Suffix(file.name)) = LStripDot(rule.pattern)
      [] rule.match_type = "size_gt" -> file.size > IntOf(rule.pattern)
      [] rule.match_type = "size_lt" -> file.size < IntOf(rule.pattern)
      [] OTHER -> FALSE

\* CustomRule.matches with the enabled test left out
matches_IgnoreEnabled(rule, file) == PatternHolds(rule, file)

\* CustomRule.matches: a disabled rule matches nothing
matches(rule, file) ==
    IF ~rule.enabled THEN FALSE ELSE PatternHolds(rule, file)

\* sorted(rules, key=priority, reverse=True): highest priority first, rules
\* of equal priority in the order of the list
RECURSIVE SortedRules(_)
SortedRules(rules) ==
    IF rules = <<>> THEN <<>>
    ELSE LET top == CHOOSE i \in 1..Len(rules) :
                        /\ \A j \in 1..Len(rules) :
                               rules[j].priority <= rules[i].priority
                        /\ \A j \in 1..(i - 1) :
                               rules[j].priority < rules[i].priority
             rest == [k \in 1..(Len(rules) - 1) |->
                          IF k < top THEN rules[k] ELSE rules[k + 1]]
         IN  <<rules[top]>> \o SortedRules(rest)

\* the for loop of evaluate: the first rule of the list that matches
RECURSIVE FirstMatch(_, _)
FirstMatch(sorted, file) ==
    IF sorted = <<>> THEN NoClassification
    ELSE IF matches(Head(sorted), file)
         THEN ClassificationResult(0, FALSE, Head(sorted).is_sensitive,
                                   "rule", Head(sorted).id)
         ELSE FirstMatch(Tail(sorted), file)

\* RulesEngine.evaluate
evaluate(rules, file) == FirstMatch(SortedRules(rules), file)

\* the extension sets of Tier1Classifier and of the category mapping
NEEDS_CONTENT_ANALYSIS == { <<".", "pdf">>, <<".", "txt">> }

POTENTIALLY_SENSITIVE == { <<".", "pdf">>, <<".", "csv">> }

get_category(extension) ==
    CASE extension \in { <<".", "pdf">>, <<".", "txt">>, <<".", "csv">> } ->
             "Documents"
      [] extension = <<".", "jpg">> -> "Images"
      [] OTHER -> "Unknown"

\* Tier1Classifier.classify
Tier1Classify(file) ==
    LET extension == Suffix(file.name)
        category == get_category(extension)
    IN  ClassificationResult(
            1,
            category = "Unknown" \/ extension \in NEEDS_CONTENT_ANALYSIS,
            extension \in POTENTIALLY_SENSITIVE,
            "metadata", 0)

\* ten times the confidence of a content match with match_count hits
Confidence10(match_count) ==
    IF 5 + match_count < 9 THEN 5 + match_count ELSE 9

MIN_MATCHES == 2

\* Tier2ContentClassifier.classify: text is "blank" or "some"; the best
\* pattern has match_count hits (0: no pattern matched) and ten times its
\* sensitivity_boost is boost10.  Without a strong match the tier hands the
\* metadata result back, marked as its own.
Tier2Classify(text, match_count, boost10, tier1_result) ==
    IF text = "blank" THEN tier1_result
    ELSE IF match_count < MIN_MATCHES
         THEN [tier1_result EXCEPT !.classification_tier = 2,
                                   !.needs_deeper_analysis = TRUE]
         ELSE ClassificationResult(2, Confidence10(match_count) < 7,
                                   boost10 > 3, "content", 0)

\* Tier3LLMClassifier.classify_with_result: llm is "none" when the model
\* gave no usable answer, else tells whether the answer flags the document
Tier3ClassifyWithResult(llm, tier2_result) ==
    IF llm = "none"
    THEN [tier2_result EXCEPT !.classification_tier = 3]
    ELSE ClassificationResult(3, FALSE, llm = "sensitive", "deep", 0)

\* ZeroShotClassifier.classify_with_result
ZeroShotClassifyWithResult(zs, tier2_result) ==
    IF zs = "none" THEN tier2_result
    ELSE ClassificationResult(3, FALSE, zs = "sensitive", "fallback", 0)

\* what a run of the chain leaves: the tiers consulted in order, the result
\* each returned, and the result the chain ends with
ChainOutcome(consulted, results, final) ==
    [consulted |-> consulted, results |-> results, final |-> final]

\* _deep_classify with the fallback tier asked before the deep tier
deep_classify_FallbackFirst(tier1_result, text, match_count, boost10, deep_available, llm, fallback_available, zs) ==
    IF text = "none" THEN ChainOutcome(<<>>, <<>>, tier1_result)
    ELSE LET tier2_result ==
                 Tier2Classify(text, match_count, boost10, tier1_result)
         IN  IF ~tier2_result.needs_deeper_analysis
             THEN ChainOutcome(<<"content">>, <<tier2_result>>, tier2_result)
             ELSE IF fallback_available
             THEN LET r == ZeroShotClassifyWithResult(zs, tier2_result)
                  IN  ChainOutcome(<<"content", "fallback">>, <<tier2_result, r>>, r)
             ELSE IF deep_available
             THEN LET r == Tier3ClassifyWithResult(llm, tier2_result)
                  IN  ChainOutcome(<<"content", "deep">>, <<tier2_result, r>>, r)
             ELSE ChainOutcome(<<"content">>, <<tier2_result>>, tier2_result)

\* _deep_classify: text is "none" when nothing could be extracted;
\* fallback_available tells that the zero-shot classifier is configured and
\* reports itself available
deep_classify(tier1_result, text, match_count, boost10, deep_available, llm, fallback_available, zs) ==
    IF text = "none" THEN ChainOutcome(<<>>, <<>>, tier1_result)
    ELSE LET tier2_result ==
                 Tier2Classify(text, match_count, boost10, tier1_result)
         IN  IF ~tier2_result.needs_deeper_analysis
             THEN ChainOutcome(<<"content">>, <<tier2_result>>, tier2_result)
             ELSE IF deep_available
             THEN LET r == Tier3ClassifyWithResult(llm, tier2_result)
                  IN  ChainOutcome(<<"content", "deep">>, <<tier2_result, r>>, r)
             ELSE IF fallback_available
             THEN LET r == ZeroShotClassifyWithResult(zs, tier2_result)
                  IN  ChainOutcome(<<"content", "fallback">>, <<tier2_result, r>>, r)
             ELSE ChainOutcome(<<"content">>, <<tier2_result>>, tier2_result)

\* the latest classification: the engine's rules, the file, the answers the
\* tiers were ready to give, the tiers consulted with their results, the
\* final result and what the pipeline did with the file
Chain(rules, file, deep_available, fallback_available, outcome, route) ==
    [rules |-> rules, file |-> file, deep_available |-> deep_available,
     fallback_available |-> fallback_available,
     consulted |-> outcome.consulted, results |-> outcome.results,
     final |-> outcome.final, route |-> route]

\* no rule loaded and no file classified yet
NoChain == Chain(<<>>, NoClassified, FALSE, FALSE, ChainOutcome(<<>>, <<>>, NoClassification), "none")

\* no entry recorded yet, the tracker constructed with no ledger file, and no
\* call in progress
InitWorkState ==
    /\ issued = <<>>
    /\ cleared_at = 0
    /\ boot = [from |-> "none", raised |-> FALSE]
    /\ undo_call = NoUndoCall
    /\ resolved = [kind |-> "none", dest |-> NoPath, path |-> NoPath,
                   raised |-> FALSE, seen |-> {}]
    /\ movers = <<>>
    /\ checkers = <<>>
    /\ recorders = <<>>
    /\ chain = NoChain

\* a worker starts process_file(p); the event gate lets one task per path be
\* queued or executing, and the executor has MaxWorkers workers
StartJob(p) ==
    /\ Len(jobs) < MaxJobs
    /\ \A j \in 1..Len(jobs) : jobs[j].path = p => jobs[j].pc = "done"
    /\ Cardinality({j \in 1..Len(jobs) : jobs[j].pc # "done"}) < MaxWorkers
    /\ jobs' = Append(jobs, Job(p))
    /\ UNCHANGED <<history, next_id, history_file, undo_result, nundo>>
    /\ UNCHANGED <<disk, dedupVars, dedupHist, nchanges, gateVars, queueVars>>
    /\ UNCHANGED <<ledgerHist, workVars>>
    /\ UNCHANGED ctlVars

\* process_file, steps 1 to 7: the exists test, check_duplicate, and the
\* answers of the rules engine and the classifiers
ProcCheck(j, route) ==
    /\ j \in 1..Len(jobs)
    /\ jobs[j].pc = "check"
    /\ LET file_path == jobs[j].path
           seq == 1 + Cardinality({k \in 1..Len(jobs) : jobs[k].seq > 0})
       IN
       IF ~Exists(disk, file_path)
       THEN /\ jobs' = [jobs EXCEPT ![j].pc = "done", ![j].ok = TRUE]
            /\ UNCHANGED dedupVars
       ELSE LET o == CheckDup(Index, disk, file_path)
                job == [jobs[j] EXCEPT !.seq = seq, !.content = disk[file_path],
                                       !.status = o.result.status,
                                       !.duplicate_of = o.result.duplicate_of]
            IN  /\ SetIndex(o)
                /\ jobs' = [jobs EXCEPT ![j] =
                      IF o.raised
                      THEN [job EXCEPT !.pc = "done", !.ok = FALSE]
                      ELSE IF o.result.status = "exact_duplicate"
                      THEN [job EXCEPT !.pc = "move", !.route = "quarantine"]
                      ELSE [job EXCEPT !.pc = "move", !.route = route]]
    /\ UNCHANGED <<history, next_id, history_file, undo_result, nundo>>
    /\ UNCHANGED <<disk, dedupHist, nchanges, gateVars, queueVars, ledgerHist, workVars>>
    /\ UNCHANGED ctlVars

\* process_file, the move: _handle_duplicate -> quarantine_file, or
\* _encrypt_and_vault -> move_file, or move_file and history.record_move
ProcMove(j) ==
    /\ j \in 1..Len(jobs)
    /\ jobs[j].pc = "move"
    /\ LET job == jobs[j]
           m == move_file(disk, job.path, DestDir(job.route))
       IN
       IF m.raised
       THEN /\ jobs' = [jobs EXCEPT ![j].pc = "done", ![j].ok = FALSE]
            /\ UNCHANGED <<disk, history, next_id, history_file, issued>>
       ELSE /\ disk' = m.disk
            /\ jobs' = [jobs EXCEPT ![j].pc = "done", ![j].ok = TRUE,
                                    ![j].dest = m.dest]
            /\ IF Recorded(job.route)
               THEN /\ SetLedger(record_move(Ledger, m.disk, job.path, m.dest,
                                             DestDir(job.route)))
                    /\ issued' = Append(issued, NewEntry(Ledger, m.disk, job.path,
                                                         m.dest, DestDir(job.route)))
               ELSE UNCHANGED <<history, next_id, history_file, issued>>
    /\ UNCHANGED <<undo_result, nundo, cleared_at, boot, undo_call>>
    /\ UNCHANGED <<dedupVars, dedupHist, nchanges, gateVars, queueVars, workVars>>
    /\ UNCHANGED ctlVars

\* SmartFileOrganizer.undo_last: "if entry: return True", else False
undo_ok(entry) == entry # NoEntry

\* undo_by_id: the index of the first entry with this id and can_undo
\* (0 when there is none)
FirstUndoableWithId(hist, entry_id) ==
    LET S == {i \in 1..Len(hist) : hist[i].id = entry_id /\ hist[i].can_undo}
    IN  IF S = {} THEN 0 ELSE CHOOSE i \in S : \A k \in S : i <= k

\* an undo call that selected the entry at index i (0: none)
UndoCallOn(kind, i) ==
    /\ nundo < MaxUndos
    /\ nundo' = nundo + 1
    /\ IF i = 0
       THEN /\ undo_result' = NoEntry
            /\ undo_call' = UndoCall(kind, 0, FALSE, FALSE)
            /\ UNCHANGED <<disk, history, next_id, history_file>>
       ELSE LET u == undo_entry(Ledger, disk, i) IN
            /\ disk' = u.disk
            /\ SetLedger(u.ledger)
            /\ undo_result' = u.returned
            /\ undo_call' = UndoCall(kind, i, ~Exists(disk, history[i].dest_path),
                                     u.disk # disk)
    /\ UNCHANGED <<jobs, issued, cleared_at, boot>>
    /\ UNCHANGED <<dedupVars, dedupHist, nchanges, gateVars, queueVars, workVars>>
    /\ UNCHANGED ctlVars

\* SmartFileOrganizer.undo_last -> HistoryTracker.undo_last
UndoLast == UndoCallOn("undo_last", LastUndoable(history))

\* HistoryTracker.undo_by_id(entry_id)
UndoById(entry_id) ==
    UndoCallOn("undo_by_id", FirstUndoableWithId(history, entry_id))

\* HistoryTracker.clear_history
ClearHistory ==
    /\ history # <<>> \/ next_id # 1
    /\ SetLedger(save_history([history |-> <<>>, next_id |-> 1]))
    /\ cleared_at' = Len(issued)
    /\ UNCHANGED <<jobs, undo_result, nundo, issued, boot, undo_call>>
    /\ UNCHANGED <<disk, dedupVars, dedupHist, nchanges, gateVars, queueVars, workVars>>
    /\ UNCHANGED ctlVars

\* the program is started again: HistoryTracker(...) loads the ledger file
Restart ==
    /\ LET L == load_history(history_file) IN
       /\ history' = L.history
       /\ next_id' = L.next_id
    /\ boot' = [from |-> history_file.kind, raised |-> load_raises(history_file)]
    /\ cleared_at' = IF history_file.kind = "json" THEN cleared_at ELSE Len(issued)
    /\ UNCHANGED <<jobs, history_file, undo_result, nundo, issued, undo_call>>
    /\ UNCHANGED <<disk, dedupVars, dedupHist, nchanges, gateVars, queueVars, workVars>>
    /\ UNCHANGED ctlVars

\* the ledger file is damaged (a write cut short, an edit by hand)
CorruptLedger ==
    /\ history_file.kind = "json"
    /\ history_file' = Garbage
    /\ UNCHANGED <<jobs, history, next_id, undo_result, nundo, ledgerHist>>
    /\ UNCHANGED <<disk, dedupVars, dedupHist, nchanges, gateVars, queueVars, workVars>>
    /\ UNCHANGED ctlVars

\* process_file organizes the file at p: move_file, then history.record_move
LedgerMove(p) ==
    /\ Len(issued) < MaxRecords
    /\ LET m == move_file(disk, p, CategoryDir) IN
       /\ ~m.raised
       /\ disk' = m.disk
       /\ SetLedger(record_move(Ledger, m.disk, p, m.dest, CategoryDir))
       /\ issued' = Append(issued, NewEntry(Ledger, m.disk, p, m.dest, CategoryDir))
    /\ UNCHANGED <<jobs, undo_result, nundo, cleared_at, boot, undo_call>>
    /\ UNCHANGED <<dedupVars, dedupHist, nchanges, gateVars, queueVars, workVars>>
    /\ UNCHANGED ctlVars

\* a new file arrives at p
EnvCreate(p) ==
    /\ nchanges < MaxLedgerChanges
    /\ ~Exists(disk, p)
    /\ disk' = DictPut(disk, p, <<1>>)
    /\ nchanges' = nchanges + 1
    /\ UNCHANGED <<dedupVars, dedupHist, gateVars, queueVars, pipeVars, ledgerHist, workVars>>
    /\ UNCHANGED ctlVars

\* somebody else removes the file at p
EnvRemove(p) ==
    /\ nchanges < MaxLedgerChanges
    /\ Exists(disk, p)
    /\ disk' = DictDel(disk, p)
    /\ nchanges' = nchanges + 1
    /\ UNCHANGED <<dedupVars, dedupHist, gateVars, queueVars, pipeVars, ledgerHist, workVars>>
    /\ UNCHANGED ctlVars

(***************************************************************************)
(* SpecQueue: the queue manager alone; its users put paths on the queue.   *)
(***************************************************************************)
QueuePaths == {Path("watch", "a", 0), Path("watch", "b", 0)}

InitQueue ==
    /\ disk = EmptyDict
    /\ InitEngine
    /\ InitGateState
    /\ InitQueueState
    /\ InitPipeState
    /\ InitWorkState

\* a call put(p)
PutTask(p) ==
    /\ Len(tasks) < MaxTasks
    /\ QueuePut(p)
    /\ UNCHANGED <<disk, dedupVars, dedupHist, nchanges, gateVars, pipeVars>>
    /\ UNCHANGED <<ledgerHist, workVars>>
    /\ UNCHANGED ctlVars

NextQueue ==
    \/ \E p \in QueuePaths : PutTask(p)
    \/ QueueSteps

SpecQueue == InitQueue /\ [][NextQueue]_vars

\* The threads of a running queue manager keep going: the dispatcher loop
\* polls the queue (get with a 1 s timeout, forever while _running), an idle
\* worker of the executor takes the next submitted task, a processor call
\* returns or raises, and a retry Timer fires after retry_delay.
QueueFairness ==
    /\ WF_vars(ProcessLoop)
    /\ WF_vars(TaskStart)
    /\ \A t \in 1..MaxTasks : WF_vars(TaskSucceed(t) \/ TaskFail(t))
    /\ \A t \in 1..MaxTasks : WF_vars(TimerFire(t))

SpecQueueLive == InitQueue /\ [][NextQueue]_vars /\ QueueFairness

(***************************************************************************)
(* SpecStop: the queue manager with a stop(wait=True) call made at any     *)
(* moment.                                                                 *)
(***************************************************************************)
(***************************************************************************)
(* SpecQueueSteps: the queue manager with its handlers followed statement  *)
(* by statement, so that another thread (a caller of is_idle or get_stats, *)
(* a worker, the dispatcher, a timer) can run between two locked sections. *)
(***************************************************************************)
NextQueueSteps ==
    \/ \E p \in QueuePaths : PutRegister(p)
    \/ \E t \in DOMAIN task_pc : PutCount(t)
    \/ \E t \in DOMAIN task_pc : PutEnqueue(t)
    \/ LoopGet
    \/ \E t \in DOMAIN task_pc : LoopCount(t)
    \/ \E t \in DOMAIN task_pc : LoopSubmit(t)
    \/ TaskStart
    \/ \E t \in executing : SucceedMark(t)
    \/ \E t \in DOMAIN task_pc : SucceedCount(t)
    \/ \E t \in DOMAIN task_pc : SucceedPop(t)
    \/ \E t \in executing : FailUncount(t)
    \/ \E t \in DOMAIN task_pc : FailDecide(t)
    \/ \E t \in DOMAIN task_pc : RetryCount(t)
    \/ \E t \in DOMAIN task_pc : RetryTimer(t)
    \/ \E t \in DOMAIN task_pc : FailCount(t)
    \/ \E t \in DOMAIN task_pc : FailPop(t)
    \/ \E t \in timers : TimerFire(t)

SpecQueueSteps == InitQueue /\ [][NextQueueSteps]_vars

NextStop ==
    \/ NextQueue
    \/ Stop
    \/ LoopExit
    \/ StopJoined
    \/ StopShutdown
    \/ StopReturn

SpecStop == InitQueue /\ [][NextStop]_vars

(***************************************************************************)
(* SpecGate: watch events for a file that is written, settles and is       *)
(* processed: event handler, settling threads, queue bridge, queue manager.*)
(***************************************************************************)
InitGate ==
    /\ disk \in [GatePaths -> GateContents]
    /\ InitEngine
    /\ InitGateState
    /\ InitQueueState
    /\ InitPipeState
    /\ InitWorkState

NextGate ==
    \/ \E p \in GatePaths : WatchEvent(p)
    \/ \E i \in 1..Len(settlers) : SettleStart(i)
    \/ \E i \in 1..Len(settlers), opens \in BOOLEAN : SettleSample(i, opens)
    \/ \E i \in 1..Len(settlers) : SettleTimeout(i)
    \/ \E i \in 1..Len(settlers) : SettleEnqueue(i)
    \/ QueueBridge
    \/ QueueSteps
    \/ Tick
    \/ \E p \in GatePaths, c \in GateContents : GateWrite(p, c)
    \/ \E p \in GatePaths : GateRemove(p)

SpecGate == InitGate /\ [][NextGate]_vars

(***************************************************************************)
(* SpecIgnore: the event gate as in SpecGate, with events also for files   *)
(* whose names match the ignore patterns: a partial download a.tmp, an     *)
(* office lock file ~$a and .DS_Store.  The watched file is as it was when *)
(* the program started; events for it keep arriving.                       *)
(***************************************************************************)
IgnoredPaths ==
    {Path("watch", "a.tmp", 0), Path("watch", "~$a", 0), Path("watch", ".DS_Store", 0)}

NextIgnore ==
    \/ \E p \in GatePaths \cup IgnoredPaths : WatchEvent(p)
    \/ \E i \in 1..Len(settlers) : SettleStart(i)
    \/ \E i \in 1..Len(settlers), opens \in BOOLEAN : SettleSample(i, opens)
    \/ \E i \in 1..Len(settlers) : SettleTimeout(i)
    \/ \E i \in 1..Len(settlers) : SettleEnqueue(i)
    \/ QueueBridge
    \/ QueueSteps
    \/ Tick

SpecIgnore == InitGate /\ [][NextIgnore]_vars

(***************************************************************************)
(* SpecDedup: one engine, called with paths whose files come and go.       *)
(***************************************************************************)
InitDedup ==
    /\ disk \in [DedupPaths -> DedupContents]
    /\ InitEngine
    /\ InitGateState
    /\ InitQueueState
    /\ InitPipeState
    /\ InitWorkState

\* a call check_duplicate(p)
CheckDuplicate(p) ==
    /\ ncalls < MaxCalls
    /\ LET o == CheckDup(Index, disk, p) IN
       /\ SetIndex(o)
       /\ result' = o.result
       /\ trail' = IF o.raised THEN <<>>
                   ELSE LET e == [path |-> p, content |-> disk[p],
                                  status |-> o.result.status,
                                  duplicate_of |-> o.result.duplicate_of,
                                  fresh |-> HoldsNoFileWith(Index, disk, disk[p]),
                                  stale |-> StaleOriginal(Index, disk, disk[p])]
                        IN  IF Len(trail) = 0 THEN <<e>> ELSE <<trail[Len(trail)], e>>
       /\ last_call' =
              LET waiting == IF Exists(disk, p)
                             THEN DictGet(files_pending_partial, Len(disk[p]), <<>>)
                             ELSE <<>>
              IN  Call(p, ~CannotHash(disk, p),
                       {waiting[i] : i \in {j \in 1..Len(waiting) :
                                                CannotHash(disk, waiting[j])}},
                       o.raised)
       /\ partial_computed' =
              Counted(partial_computed, PartialComputes(Index, disk, p))
    /\ ncalls' = ncalls + 1
    /\ UNCHANGED <<disk, nchanges, gateVars, queueVars, pipeVars, ledgerHist, workVars>>
    /\ UNCHANGED <<running, worker_thread, executor_shutdown, stop_pc, chain, unreadable>>
    /\ UNCHANGED <<task_pc, last_event>>

\* a call add_to_index(p)
AddToIndex(p) ==
    /\ ncalls < MaxCalls
    /\ LET o == AddIdx(Index, disk, p) IN
       /\ SetIndex(o)
       /\ result' = o.result
    /\ trail' = <<>>
    /\ ncalls' = ncalls + 1
    /\ partial_computed' =
           IF CannotHash(disk, p) THEN partial_computed
           ELSE Counted(partial_computed, <<p>>)
    /\ UNCHANGED <<disk, nchanges, gateVars, queueVars, pipeVars, ledgerHist, workVars>>
    /\ UNCHANGED <<running, worker_thread, executor_shutdown, stop_pc, chain>>
    /\ UNCHANGED <<unreadable, last_call, task_pc, last_event>>

\* the environment writes a file (a new file, or new content at a used path)
WriteFile(p, c) ==
    /\ nchanges < MaxChanges
    /\ ~(Exists(disk, p) /\ disk[p] = c)
    /\ disk' = DictPut(disk, p, c)
    /\ trail' = <<>>
    /\ nchanges' = nchanges + 1
    /\ UNCHANGED <<dedupVars, result, ncalls, gateVars, queueVars, pipeVars>>
    /\ UNCHANGED <<ledgerHist, workVars>>
    /\ UNCHANGED ctlVars

\* the environment removes a file (it was moved away or deleted)
RemoveFile(p) ==
    /\ nchanges < MaxChanges
    /\ Exists(disk, p)
    /\ disk' = DictDel(disk, p)
    /\ trail' = <<>>
    /\ nchanges' = nchanges + 1
    /\ UNCHANGED <<dedupVars, result, ncalls, gateVars, queueVars, pipeVars>>
    /\ UNCHANGED <<ledgerHist, workVars>>
    /\ UNCHANGED ctlVars

\* the environment takes away (or gives back) the permission to read a file
Chmod(p) ==
    /\ nchanges < MaxChanges
    /\ Exists(disk, p)
    /\ unreadable' = IF p \in unreadable THEN unreadable \ {p}
                     ELSE unreadable \cup {p}
    /\ trail' = <<>>
    /\ nchanges' = nchanges + 1
    /\ UNCHANGED <<disk, dedupVars, result, ncalls, gateVars, queueVars, pipeVars>>
    /\ UNCHANGED <<ledgerHist, workVars>>
    /\ UNCHANGED <<running, worker_thread, executor_shutdown, stop_pc, chain, last_call, partial_computed, task_pc, last_event>>

NextDedup ==
    \/ \E p \in DedupPaths : CheckDuplicate(p)
    \/ \E p \in DedupPaths, c \in DedupContents : WriteFile(p, c)
    \/ \E p \in DedupPaths : RemoveFile(p)

SpecDedup == InitDedup /\ [][NextDedup]_vars

(***************************************************************************)
(* SpecPermissions: the deduplication engine as in SpecDedup, while files  *)
(* also lose and regain the permission to be read.                         *)
(***************************************************************************)
NextPermissions ==
    \/ NextDedup
    \/ \E p \in DedupPaths : Chmod(p)

SpecPermissions == InitDedup /\ [][NextPermissions]_vars

(***************************************************************************)
(* Properties of the deduplication engine (checked under SpecDedup).       *)
(* trail is non-empty exactly when the latest step was a check_duplicate   *)
(* call that returned; trail[Len(trail)] describes that call.              *)
(***************************************************************************)
LastCheck == trail[Len(trail)]

\* C1: on an engine whose index holds no file with the same content, checking
\* two distinct paths with identical content one after the other yields
\* Unique for the first and ExactDuplicate of the first for the second.
C1_SecondIsDuplicateOfFirst ==
    (/\ Len(trail) = 2
     /\ trail[1].fresh
     /\ trail[1].path # trail[2].path
     /\ trail[1].content = trail[2].content)
    => (/\ trail[1].status = "unique"
        /\ trail[2].status = "exact_duplicate"
        /\ trail[2].duplicate_of = trail[1].path)

\* C8: when the recorded original of the incoming file's content is gone from
\* disk, check_duplicate returns Unique, the stale path is left in none of the
\* size, partial-hash and full-hash indexes, and the incoming path is the
\* recorded original.
C8_RelocationRepointsAllIndexes ==
    (trail # <<>> /\ LastCheck.stale # NoPath)
    => (/\ LastCheck.status = "unique"
        /\ LastCheck.stale \notin IndexedPaths(Index)
        /\ full_hash_index[FullHashOf(LastCheck.content)] = LastCheck.path)

\* C9: a verdict has duplicate_of set iff its status is not Unique, and a set
\* duplicate_of exists on disk at verdict time and is not the incoming path.
C9_VerdictWellFormed ==
    trail # <<>>
    => (/\ (result.duplicate_of # NoPath) <=> (result.status # "unique")
        /\ result.duplicate_of # NoPath
           => (Exists(disk, result.duplicate_of)
               /\ result.duplicate_of # result.file_path))

\* C9 witness: a check has just reported an exact duplicate
C9_Witness ==
    /\ trail # <<>>
    /\ result.status = "exact_duplicate"
    /\ result.file_path = LastCheck.path

(***************************************************************************)
(* SpecPipeline: files in the watched directory are processed by the       *)
(* workers, and the user undoes moves.                                     *)
(***************************************************************************)
WatchPaths == {Path(WatchDir, "a", 0), Path(WatchDir, "b", 0)}

PipeContents == {<<1>>, <<2>>}

\* files that may be in the category folder from an earlier run
OldPaths == {Path(CategoryDir, "a", 0)}

InitPipeline ==
    /\ \E w \in [WatchPaths -> PipeContents], old \in SUBSET OldPaths :
          disk = [p \in WatchPaths \cup old |-> IF p \in WatchPaths THEN w[p] ELSE <<3>>]
    /\ InitEngine
    /\ InitGateState
    /\ InitQueueState
    /\ InitPipeState
    /\ InitWorkState

NextPipeline ==
    \/ \E p \in WatchPaths : StartJob(p)
    \/ \E j \in 1..Len(jobs), route \in Routes : ProcCheck(j, route)
    \/ \E j \in 1..Len(jobs) : ProcMove(j)
    \/ UndoLast

SpecPipeline == InitPipeline /\ [][NextPipeline]_vars

(***************************************************************************)
(* SpecLedger: the history tracker over the life of its ledger file: moves *)
(* are recorded and undone, the history is cleared, files come and go, and *)
(* the program is restarted.                                               *)
(***************************************************************************)
\* the files the pipeline moved, where they can be at undo time
MovedPaths == {Path(CategoryDir, nm, k) : nm \in {"a", "b"}, k \in 0..RenameLimit}

\* the ids an undo_by_id call is given
EntryIds == 1..(MaxRecords + 1)

InitLedger ==
    /\ disk = [p \in WatchPaths |-> <<1>>]
    /\ InitEngine
    /\ InitGateState
    /\ InitQueueState
    /\ InitPipeState
    /\ InitWorkState

NextLedger ==
    \/ \E p \in WatchPaths : LedgerMove(p)
    \/ UndoLast
    \/ \E entry_id \in EntryIds : UndoById(entry_id)
    \/ ClearHistory
    \/ Restart
    \/ CorruptLedger
    \/ \E p \in WatchPaths : EnvCreate(p)
    \/ \E p \in MovedPaths : EnvRemove(p)

SpecLedger == InitLedger /\ [][NextLedger]_vars

(***************************************************************************)
(* SpecResolve: the two Rename resolvers applied to a destination folder   *)
(* that holds any of the names report, report_1, ... and the timestamp     *)
(* name, while files come and go.                                          *)
(***************************************************************************)
\* the intended destination
ReportPath == Path(CategoryDir, "report", 0)

\* the names that may exist in the destination folder
ResolvePaths ==
    {[ReportPath EXCEPT !.n = k] : k \in 0..(UniqueNameLimit + 1)}
    \cup {[ReportPath EXCEPT !.n = Timestamp]}

\* a call of FileOperations._resolve_conflict(dest_path); dest, seen (the
\* files that exist at the call), path and raised are history
ResolveConflict(dest_path) ==
    /\ LET r == resolve_conflict(disk, dest_path) IN
       resolved' = [kind |-> "file_operations", dest |-> dest_path, path |-> r,
                    raised |-> (r = NoPath), seen |-> DOMAIN disk]
    /\ UNCHANGED <<disk, dedupVars, dedupHist, nchanges, gateVars, queueVars>>
    /\ UNCHANGED <<pipeVars, ledgerHist, movers, checkers, recorders>>
    /\ UNCHANGED ctlVars

\* a call of ConflictResolver.resolve(source, dest_path) with RENAME
Resolve(dest_path) ==
    /\ resolved' = [kind |-> "conflict_resolver", dest |-> dest_path,
                    path |-> resolve(disk, dest_path), raised |-> FALSE,
                    seen |-> DOMAIN disk]
    /\ UNCHANGED <<disk, dedupVars, dedupHist, nchanges, gateVars, queueVars>>
    /\ UNCHANGED <<pipeVars, ledgerHist, movers, checkers, recorders>>
    /\ UNCHANGED ctlVars

InitResolve ==
    /\ \E S \in SUBSET ResolvePaths : disk = [p \in S |-> <<1>>]
    /\ InitEngine
    /\ InitGateState
    /\ InitQueueState
    /\ InitPipeState
    /\ InitWorkState

NextResolve ==
    \/ ResolveConflict(ReportPath)
    \/ Resolve(ReportPath)
    \/ \E p \in ResolvePaths : EnvCreate(p)
    \/ \E p \in ResolvePaths : EnvRemove(p)

SpecResolve == InitResolve /\ [][NextResolve]_vars

(***************************************************************************)
(* SpecMovers: workers of the executor call move_file at the same time for *)
(* files of the same name from different folders.  move_file takes no      *)
(* lock, so a call is two steps: the conflict check, then shutil.move.     *)
(***************************************************************************)
\* files named "a" in three watched folders
MoverSources == {Path("watch", "a", 0), Path("inbox", "a", 0), Path("downloads", "a", 0)}

\* what the destination folder may hold beforehand
MoverOldPaths == {Path(CategoryDir, "a", 0), Path(CategoryDir, "a", 1)}

\* the contents of a watched file, one per folder
MoverContent(p) ==
    CASE p.dir = "watch" -> <<1>>
      [] p.dir = "inbox" -> <<2>>
      [] OTHER -> <<3>>

\* a move_file(source, dest_dir) call; overwrote is history: a file was at
\* dest when shutil.move ran
Mover(source, pc, dest, raised, overwrote) ==
    [source |-> source, pc |-> pc, dest |-> dest, raised |-> raised,
     overwrote |-> overwrote]

\* move_file up to _resolve_conflict: the exists test, mkdir, the conflict check
MoverResolve(source) ==
    /\ Len(movers) < MaxMovers
    /\ \A i \in 1..Len(movers) : movers[i].source # source
    /\ Cardinality({i \in 1..Len(movers) : movers[i].pc # "done"}) < MaxWorkers
    /\ LET dest_path == IF Exists(disk, source)
                        THEN resolve_conflict(disk, Path(CategoryDir, source.name, 0))
                        ELSE NoPath
       IN  movers' = Append(movers,
              IF dest_path = NoPath
              THEN Mover(source, "done", NoPath, TRUE, FALSE)
              ELSE Mover(source, "move", dest_path, FALSE, FALSE))
    /\ UNCHANGED <<disk, dedupVars, dedupHist, nchanges, gateVars, queueVars>>
    /\ UNCHANGED <<pipeVars, ledgerHist, resolved, checkers, recorders>>
    /\ UNCHANGED ctlVars

\* move_file, shutil.move(source, dest_path) and the return
MoverMove(i) ==
    /\ i \in 1..Len(movers)
    /\ movers[i].pc = "move"
    /\ LET m == movers[i] IN
       IF ~Exists(disk, m.source)
       THEN /\ movers' = [movers EXCEPT ![i] = Mover(m.source, "done", NoPath, TRUE, FALSE)]
            /\ UNCHANGED disk
       ELSE /\ disk' = ShutilMove(disk, m.source, m.dest)
            /\ movers' = [movers EXCEPT ![i] =
                  Mover(m.source, "done", m.dest, FALSE, Exists(disk, m.dest))]
    /\ UNCHANGED <<dedupVars, dedupHist, nchanges, gateVars, queueVars>>
    /\ UNCHANGED <<pipeVars, ledgerHist, resolved, checkers, recorders>>
    /\ UNCHANGED ctlVars

InitMovers ==
    /\ \E old \in SUBSET MoverOldPaths :
          disk = [p \in MoverSources \cup old |->
                    IF p \in MoverSources THEN MoverContent(p) ELSE <<4>>]
    /\ InitEngine
    /\ InitGateState
    /\ InitQueueState
    /\ InitPipeState
    /\ InitWorkState

NextMovers ==
    \/ \E source \in MoverSources : MoverResolve(source)
    \/ \E i \in 1..Len(movers) : MoverMove(i)

SpecMovers == InitMovers /\ [][NextMovers]_vars

(***************************************************************************)
(* SpecRace: workers of the executor call check_duplicate on the shared    *)
(* engine at the same time.  check_duplicate takes no lock, so a call is a *)
(* sequence of steps; a step starts at a file read (stat, a hash) or at a  *)
(* test whose write follows, and runs to the next one.  Steps coarser than *)
(* the interpreter's only leave interleavings out.                         *)
(***************************************************************************)
RacePaths == DedupPaths

\* a check_duplicate(file_path) call: its position, its locals, and what it
\* returned (raised: it ended with an exception)
Checker(file_path, pc, file_size, partial_hash, candidates, raised, status, duplicate_of) ==
    [path |-> file_path, pc |-> pc, file_size |-> file_size,
     partial_hash |-> partial_hash, candidates |-> candidates,
     raised |-> raised, status |-> status, duplicate_of |-> duplicate_of]

\* the call returns what outcome o holds
CheckerDone(c, o) ==
    [c EXCEPT !.pc = "done", !.raised = o.raised, !.status = o.result.status,
              !.duplicate_of = o.result.duplicate_of]

\* a worker enters check_duplicate(file_path): file_path.stat().st_size
CheckerStat(file_path) ==
    /\ Len(checkers) < MaxCheckers
    /\ \A i \in 1..Len(checkers) : checkers[i].path # file_path
    /\ Cardinality({i \in 1..Len(checkers) : checkers[i].pc # "done"}) < MaxWorkers
    /\ checkers' = Append(checkers,
          IF ~Exists(disk, file_path)
          THEN Checker(file_path, "done", 0, NoHash, <<>>, TRUE, "none", NoPath)
          ELSE Checker(file_path, "stage1", Len(disk[file_path]), NoHash, <<>>,
                       FALSE, "none", NoPath))
    /\ UNCHANGED <<disk, dedupVars, dedupHist, nchanges, gateVars, queueVars>>
    /\ UNCHANGED <<pipeVars, ledgerHist, resolved, movers, recorders>>
    /\ UNCHANGED ctlVars

\* stage 1, the test "file_size not in self._size_index"
CheckerStage1Test(i) ==
    /\ i \in 1..Len(checkers)
    /\ checkers[i].pc = "stage1"
    /\ checkers' = [checkers EXCEPT ![i].pc =
          IF checkers[i].file_size \notin DOMAIN size_index
          THEN "stage1_write" ELSE "partial"]
    /\ UNCHANGED <<disk, dedupVars, dedupHist, nchanges, gateVars, queueVars>>
    /\ UNCHANGED <<pipeVars, ledgerHist, resolved, movers, recorders>>
    /\ UNCHANGED ctlVars

\* stage 1, the two assignments and the return
CheckerStage1Write(i) ==
    /\ i \in 1..Len(checkers)
    /\ checkers[i].pc = "stage1_write"
    /\ LET c == checkers[i]
           o == CheckStage1(Index, c.path, c.file_size)
       IN  /\ SetIndex(o)
           /\ checkers' = [checkers EXCEPT ![i] = CheckerDone(c, o)]
    /\ UNCHANGED <<disk, dedupHist, nchanges, gateVars, queueVars>>
    /\ UNCHANGED <<pipeVars, ledgerHist, resolved, movers, recorders>>
    /\ UNCHANGED ctlVars

\* stage 2, the partial hash of the file, and "candidates =
\* self._files_pending_partial.get(file_size, [])"
CheckerPartial(i) ==
    /\ i \in 1..Len(checkers)
    /\ checkers[i].pc = "partial"
    /\ LET c == checkers[i] IN
       IF CannotHash(disk, c.path)
       THEN /\ checkers' = [checkers EXCEPT ![i] = CheckerDone(c, Outcome(Index, TRUE, NoResult))]
            /\ UNCHANGED dedupVars
       ELSE LET partial_hash == PartialHashOf(disk[c.path])
                candidates == DictGet(files_pending_partial, c.file_size, <<>>)
            IN  /\ path_to_partial_hash' = DictPut(path_to_partial_hash, c.path, partial_hash)
                /\ checkers' = [checkers EXCEPT ![i] =
                      [c EXCEPT !.partial_hash = partial_hash,
                                !.candidates = candidates,
                                !.pc = IF candidates # <<>> THEN "hydrate" ELSE "stage2"]]
                /\ UNCHANGED <<size_index, files_pending_partial, partial_hash_index,
                               full_hash_index, path_to_full_hash>>
    /\ UNCHANGED <<disk, dedupHist, nchanges, gateVars, queueVars>>
    /\ UNCHANGED <<pipeVars, ledgerHist, resolved, movers, recorders>>
    /\ UNCHANGED ctlVars

\* stage 2, the loop over the candidates and "del
\* self._files_pending_partial[file_size]", which raises KeyError when another
\* call deleted the key first
CheckerHydrate(i) ==
    /\ i \in 1..Len(checkers)
    /\ checkers[i].pc = "hydrate"
    /\ LET c == checkers[i]
           h == HydratePartial(Index, disk, c.candidates)
       IN  IF c.file_size \notin DOMAIN h.files_pending_partial
           THEN /\ SetIndex(Outcome(h, TRUE, NoResult))
                /\ checkers' = [checkers EXCEPT ![i] = CheckerDone(c, Outcome(h, TRUE, NoResult))]
           ELSE /\ SetIndex(Outcome([h EXCEPT !.files_pending_partial = DictDel(@, c.file_size)],
                                    FALSE, NoResult))
                /\ checkers' = [checkers EXCEPT ![i].pc = "stage2"]
    /\ UNCHANGED <<disk, dedupHist, nchanges, gateVars, queueVars>>
    /\ UNCHANGED <<pipeVars, ledgerHist, resolved, movers, recorders>>
    /\ UNCHANGED ctlVars

\* stage 2, "if partial_hash not in self._partial_hash_index": the file is
\* added and the call returns Unique, or the call goes on to stage 3
CheckerStage2(i) ==
    /\ i \in 1..Len(checkers)
    /\ checkers[i].pc = "stage2"
    /\ LET c == checkers[i] IN
       IF c.partial_hash \notin DOMAIN partial_hash_index
       THEN LET o == Outcome([Index EXCEPT
                        !.size_index = DictPut(@, c.file_size, Append(@[c.file_size], c.path)),
                        !.partial_hash_index = DictPut(@, c.partial_hash, <<c.path>>)],
                     FALSE,
                     HashResult(c.path, c.file_size, c.partial_hash, NoHash, "unique", NoPath))
            IN  /\ SetIndex(o)
                /\ checkers' = [checkers EXCEPT ![i] = CheckerDone(c, o)]
       ELSE /\ checkers' = [checkers EXCEPT ![i].pc = "stage3"]
            /\ UNCHANGED dedupVars
    /\ UNCHANGED <<disk, dedupHist, nchanges, gateVars, queueVars>>
    /\ UNCHANGED <<pipeVars, ledgerHist, resolved, movers, recorders>>
    /\ UNCHANGED ctlVars

\* stage 3, from the full hash of the file to the return
CheckerStage3(i) ==
    /\ i \in 1..Len(checkers)
    /\ checkers[i].pc = "stage3"
    /\ LET c == checkers[i] IN
       IF CannotHash(disk, c.path)
       THEN /\ checkers' = [checkers EXCEPT ![i] = CheckerDone(c, Outcome(Index, TRUE, NoResult))]
            /\ UNCHANGED dedupVars
       ELSE LET o == CheckStage3(Index, disk, c.path, c.file_size, c.partial_hash) IN
            /\ SetIndex(o)
            /\ checkers' = [checkers EXCEPT ![i] = CheckerDone(c, o)]
    /\ UNCHANGED <<disk, dedupHist, nchanges, gateVars, queueVars>>
    /\ UNCHANGED <<pipeVars, ledgerHist, resolved, movers, recorders>>
    /\ UNCHANGED ctlVars

InitRace ==
    /\ disk \in [RacePaths -> DedupContents]
    /\ InitEngine
    /\ InitGateState
    /\ InitQueueState
    /\ InitPipeState
    /\ InitWorkState

NextRace ==
    \/ \E file_path \in RacePaths : CheckerStat(file_path)
    \/ \E i \in 1..Len(checkers) : CheckerStage1Test(i)
    \/ \E i \in 1..Len(checkers) : CheckerStage1Write(i)
    \/ \E i \in 1..Len(checkers) : CheckerPartial(i)
    \/ \E i \in 1..Len(checkers) : CheckerHydrate(i)
    \/ \E i \in 1..Len(checkers) : CheckerStage2(i)
    \/ \E i \in 1..Len(checkers) : CheckerStage3(i)

SpecRace == InitRace /\ [][NextRace]_vars

(***************************************************************************)
(* SpecRecorders: workers of the executor call history.record_move at the  *)
(* same time, each after its own move.  record_move takes no lock, so a    *)
(* call is a sequence of steps: the entry is created from _next_id, the    *)
(* counter is incremented and the entry appended, _save_history builds the *)
(* document, and the document is written to the ledger file.               *)
(***************************************************************************)
\* the files the workers have just moved: source and destination
RecorderSources == {Path(WatchDir, "a", 0), Path(WatchDir, "b", 0), Path(WatchDir, "c", 0)}

RecorderDest(source) == Path(CategoryDir, source.name, 0)

\* a record_move call: its position, the entry it created, and the document
\* _save_history built (NoFile before that)
Recorder(pc, entry, data) == [pc |-> pc, entry |-> entry, data |-> data]

\* record_move up to "entry = HistoryEntry(id=self._next_id, ...)"
RecorderEntry(source) ==
    /\ Len(recorders) < MaxRecorders
    /\ \A i \in 1..Len(recorders) : recorders[i].entry.source_path # source
    /\ Cardinality({i \in 1..Len(recorders) : recorders[i].pc # "done"}) < MaxWorkers
    /\ recorders' = Append(recorders,
          Recorder("append",
                   NewEntry(Ledger, disk, source, RecorderDest(source), CategoryDir),
                   NoFile))
    /\ UNCHANGED <<disk, dedupVars, dedupHist, nchanges, gateVars, queueVars>>
    /\ UNCHANGED <<pipeVars, ledgerHist, resolved, movers, checkers>>
    /\ UNCHANGED ctlVars

\* record_move: "self._next_id += 1; self._history.append(entry)"
RecorderAppend(i) ==
    /\ i \in 1..Len(recorders)
    /\ recorders[i].pc = "append"
    /\ next_id' = next_id + 1
    /\ history' = Append(history, recorders[i].entry)
    /\ recorders' = [recorders EXCEPT ![i].pc = "save"]
    /\ UNCHANGED <<jobs, history_file, undo_result, nundo>>
    /\ UNCHANGED <<disk, dedupVars, dedupHist, nchanges, gateVars, queueVars>>
    /\ UNCHANGED <<ledgerHist, resolved, movers, checkers>>
    /\ UNCHANGED ctlVars

\* _save_history: the trim, and the document built from the tracker's state
RecorderSave(i) ==
    /\ i \in 1..Len(recorders)
    /\ recorders[i].pc = "save"
    /\ LET L == save_history(Ledger) IN
       /\ history' = L.history
       /\ recorders' = [recorders EXCEPT ![i].pc = "write", ![i].data = JsonDump(L)]
    /\ UNCHANGED <<jobs, next_id, history_file, undo_result, nundo>>
    /\ UNCHANGED <<disk, dedupVars, dedupHist, nchanges, gateVars, queueVars>>
    /\ UNCHANGED <<ledgerHist, resolved, movers, checkers>>
    /\ UNCHANGED ctlVars

\* _save_history: open(self.history_file, "w") and json.dump(data, f)
RecorderWrite(i) ==
    /\ i \in 1..Len(recorders)
    /\ recorders[i].pc = "write"
    /\ history_file' = recorders[i].data
    /\ recorders' = [recorders EXCEPT ![i].pc = "done"]
    /\ UNCHANGED <<jobs, history, next_id, undo_result, nundo>>
    /\ UNCHANGED <<disk, dedupVars, dedupHist, nchanges, gateVars, queueVars>>
    /\ UNCHANGED <<ledgerHist, resolved, movers, checkers>>
    /\ UNCHANGED ctlVars

InitRecorders ==
    /\ disk = [p \in {RecorderDest(s) : s \in RecorderSources} |-> <<1>>]
    /\ InitEngine
    /\ InitGateState
    /\ InitQueueState
    /\ InitPipeState
    /\ InitWorkState

NextRecorders ==
    \/ \E source \in RecorderSources : RecorderEntry(source)
    \/ \E i \in 1..Len(recorders) : RecorderAppend(i)
    \/ \E i \in 1..Len(recorders) : RecorderSave(i)
    \/ \E i \in 1..Len(recorders) : RecorderWrite(i)

SpecRecorders == InitRecorders /\ [][NextRecorders]_vars

(***************************************************************************)
(* SpecClassify: the rules engine loads a list of rules, and process_file  *)
(* classifies files: the rule step, the metadata tier, the check for       *)
(* similar images, _deep_classify, and the choice between the vault and    *)
(* the organized folders.  What the extractor, the pattern matcher, the    *)
(* language model and the zero-shot model answer is open.                  *)
(***************************************************************************)
Files == [name : FileNames, size : FileSizes]

\* what a rule may test
RuleShapes ==
    { [match_type |-> "extension", pattern |-> <<".", "pdf">>, is_sensitive |-> TRUE],
      [match_type |-> "contains", pattern |-> <<"inv">>, is_sensitive |-> FALSE],
      [match_type |-> "starts_with", pattern |-> <<"a">>, is_sensitive |-> FALSE],
      [match_type |-> "ends_with", pattern |-> <<"txt">>, is_sensitive |-> FALSE],
      [match_type |-> "size_gt", pattern |-> <<"2">>, is_sensitive |-> FALSE],
      [match_type |-> "size_lt", pattern |-> <<"2">>, is_sensitive |-> FALSE] }

RulePriorities == {10, 50}

\* the lists of at most MaxRules rules, a rule's id being its place in the
\* list
RuleLists ==
    UNION { { [i \in 1..n |->
                 CustomRule(i, shape[i].match_type, shape[i].pattern,
                            prio[i], on[i], shape[i].is_sensitive)] :
              shape \in [1..n -> RuleShapes],
              prio \in [1..n -> RulePriorities],
              on \in [1..n -> BOOLEAN] } : n \in 0..MaxRules }

\* RulesEngine.__init__ and _load_rules: the engine, constructed once, takes
\* the rules of its file
LoadRules ==
    /\ chain = NoChain
    /\ \E rules \in RuleLists : chain' = [NoChain EXCEPT !.rules = rules]
    /\ UNCHANGED <<disk, dedupVars, dedupHist, nchanges, gateVars, queueVars>>
    /\ UNCHANGED <<pipeVars, ledgerHist, workVars>>
    /\ UNCHANGED <<running, worker_thread, executor_shutdown, stop_pc>>
    /\ UNCHANGED <<unreadable, last_call, partial_computed, task_pc, last_event>>

\* steps 6 and 8 of process_file: a sensitive file goes to the vault when
\* encryption is enabled, any other file is moved by its result
Route(final, enable_encryption) ==
    IF final.is_sensitive /\ enable_encryption THEN "vault" ELSE "move"

\* steps 3 to 8 of process_file(file) for a file that is no exact duplicate;
\* the steps run one after the other on one worker
ClassifyFile(file) ==
    /\ chain.file = NoClassified
    /\ LET rule_result == evaluate(chain.rules, file)
           tier1_result == Tier1Classify(file)
       IN  IF rule_result # NoClassification
           THEN chain' = Chain(chain.rules, file, FALSE, FALSE,
                               ChainOutcome(<<"rule">>, <<rule_result>>,
                                            rule_result),
                               "rule_move")
           ELSE \E similar \in IF get_category(Suffix(file.name)) = "Images"
                               THEN BOOLEAN ELSE {FALSE} :
                IF similar
                THEN chain' = Chain(chain.rules, file, FALSE, FALSE,
                                    ChainOutcome(<<"rule", "metadata">>,
                                                 <<rule_result, tier1_result>>,
                                                 tier1_result),
                                    "duplicate")
                ELSE IF ~tier1_result.needs_deeper_analysis
                THEN \E enable_encryption \in BOOLEAN :
                     chain' = Chain(chain.rules, file, FALSE, FALSE,
                                    ChainOutcome(<<"rule", "metadata">>,
                                                 <<rule_result, tier1_result>>,
                                                 tier1_result),
                                    Route(tier1_result, enable_encryption))
                ELSE \E text \in {"none", "blank", "some"},
                        deep_available \in BOOLEAN,
                        fallback_available \in BOOLEAN,
                        enable_encryption \in BOOLEAN :
                     \E match_count \in IF text = "some" THEN 0..MaxMatches
                                        ELSE {0},
                        boost10 \in IF text = "some" THEN {2, 5} ELSE {2},
                        llm \in IF deep_available
                                THEN {"none", "plain", "sensitive"}
                                ELSE {"none"},
                        zs \in IF fallback_available /\ ~deep_available
                               THEN {"none", "plain", "sensitive"}
                               ELSE {"none"} :
                     LET deep == deep_classify(tier1_result, text, match_count,
                                               boost10, deep_available, llm,
                                               fallback_available, zs)
                     IN  chain' =
                           Chain(chain.rules, file, deep_available,
                                 fallback_available,
                                 ChainOutcome(
                                     <<"rule", "metadata">> \o deep.consulted,
                                     <<rule_result, tier1_result>>
                                         \o deep.results,
                                     deep.final),
                                 Route(deep.final, enable_encryption))
    /\ UNCHANGED <<disk, dedupVars, dedupHist, nchanges, gateVars, queueVars>>
    /\ UNCHANGED <<pipeVars, ledgerHist, workVars>>
    /\ UNCHANGED <<running, worker_thread, executor_shutdown, stop_pc>>
    /\ UNCHANGED <<unreadable, last_call, partial_computed, task_pc, last_event>>

\* process_file returns; the next file starts with nothing consulted
FileDone ==
    /\ chain.file # NoClassified
    /\ chain' = [NoChain EXCEPT !.rules = chain.rules]
    /\ UNCHANGED <<disk, dedupVars, dedupHist, nchanges, gateVars, queueVars>>
    /\ UNCHANGED <<pipeVars, ledgerHist, workVars>>
    /\ UNCHANGED <<running, worker_thread, executor_shutdown, stop_pc>>
    /\ UNCHANGED <<unreadable, last_call, partial_computed, task_pc, last_event>>

InitClassify ==
    /\ disk = [p \in {} |-> <<>>]
    /\ InitEngine
    /\ InitGateState
    /\ InitQueueState
    /\ InitPipeState
    /\ InitWorkState

NextClassify ==
    \/ LoadRules
    \/ \E file \in Files : ClassifyFile(file)
    \/ FileDone

SpecClassify == InitClassify /\ [][NextClassify]_vars

(***************************************************************************)
(* Properties of the queue manager (checked under SpecQueue).              *)
(***************************************************************************)
TaskIds == 1..Len(tasks)

\* whether task t is the task registered for its path in _active_tasks
IsActive(t) ==
    /\ tasks[t].file_path \in DOMAIN active_tasks
    /\ active_tasks[tasks[t].file_path] = t

\* C3 as stated: a task that fails k < max_retries times and then succeeds
\* ends Completed with retry_count = k; a task whose processor has failed
\* max_retries times is Failed and is not in the active-task set.
C3_FailedAfterMaxRetriesFailures ==
    \A t \in TaskIds :
        /\ tasks[t].status = "completed" => tasks[t].retry_count = tasks[t].failures
        /\ tasks[t].failures >= MaxRetries
           => (tasks[t].status = "failed" /\ ~IsActive(t))

\* C3 as amended: a task that fails k <= max_retries times and then succeeds
\* ends Completed with retry_count = k; a task is Failed exactly when its
\* processor has failed max_retries + 1 times, and then it has
\* retry_count = max_retries and is not in the active-task set.
C3_FailedAfterMaxRetriesPlusOne ==
    \A t \in TaskIds :
        /\ tasks[t].status = "completed"
           => (tasks[t].retry_count = tasks[t].failures
               /\ tasks[t].failures <= MaxRetries)
        /\ tasks[t].status = "failed" <=> tasks[t].failures = MaxRetries + 1
        /\ tasks[t].status = "failed"
           => (tasks[t].retry_count = MaxRetries /\ ~IsActive(t))
        /\ tasks[t].failures <= MaxRetries + 1

\* C3 witness: one task ended Failed, another ended Completed on its last
\* allowed attempt (after max_retries failures)
C3_Witness ==
    /\ \E t \in TaskIds : tasks[t].status = "failed"
    /\ \E t \in TaskIds : tasks[t].status = "completed"
                           /\ tasks[t].failures = MaxRetries

(***************************************************************************)
(* Properties of the event gate (checked under SpecGate).                  *)
(***************************************************************************)
\* how many times p is in the sequence of paths s
Occurrences(s, p) == Cardinality({i \in 1..Len(s) : s[i] = p})

\* the items for path p that are queued or executing: p waiting for the
\* queue bridge, and the tasks for p that are not terminal
LiveCount(p) ==
    Occurrences(processing_queue, p)
    + Cardinality({t \in TaskIds : tasks[t].file_path = p /\ Live(t)})

\* C4: no two tasks for the same path are queued or executing at the same
\* time, and a path that is queued or executing is marked in-flight (so the
\* gate hands it over at most once between two mark_complete calls).
C4_OneTaskPerPath ==
    \A p \in GatePaths :
        /\ LiveCount(p) <= 1
        /\ LiveCount(p) = 1 => p \in processing_set

\* C4 witness: the path was handed over a second time, after its first task
\* completed, while a settling thread for it is still running
C4_Witness ==
    \E t1, t2 \in TaskIds :
        /\ t1 < t2
        /\ tasks[t1].file_path = tasks[t2].file_path
        /\ tasks[t1].status = "completed"
        /\ Live(t2)
        /\ settlers # <<>>

\* C5: a path marked in-flight is released once its task has terminated,
\* Completed or Failed: a path is in-flight only while an item for it is
\* queued or executing.
C5_ReleasedWhenTaskTerminates ==
    \A p \in processing_set : LiveCount(p) >= 1

\* C6: of the watch events for a path that arrive less than one debounce
\* window apart, at most one results in the path being enqueued.
C6_OneEnqueuePerWindow ==
    \A i, j \in 1..Len(enq_log) :
        (i < j /\ enq_log[i].path = enq_log[j].path)
        => (enq_log[j].etime - enq_log[i].etime >= DebounceWindow
            \/ enq_log[i].etime - enq_log[j].etime >= DebounceWindow)

C31_ReadyOnlyAfterOpenProbe ==
    \A i \in 1..Len(enq_log) :
        /\ enq_log[i].last = enq_log[i].before
        /\ enq_log[i].last > 0
        /\ enq_log[i].opened

\* C32: when the settling wait of an accepted event ends without the file
\* being ready, that step neither enqueues the path nor marks it in-flight,
\* and it leaves no debounce timestamp for the path, so the debounce check
\* accepts an event for the path at any later time, however soon.
C32_AbandonedWaitClearsDebounce ==
    [][\A i \in 1..Len(settlers) :
          (/\ settlers[i].pc # "ready"
           /\ settlers' = SubSeq(settlers, 1, i - 1)
                              \o SubSeq(settlers, i + 1, Len(settlers)))
          => /\ processing_set' = processing_set
             /\ processing_queue' = processing_queue
             /\ enq_log' = enq_log
             /\ settlers[i].path \notin DOMAIN pending'
             /\ \A t \in now'..(StartTime + MaxTicks) :
                    should_process(pending', settlers[i].path, t)]_vars

\* C32 witness: the second event for the path passed the gate less than one
\* debounce window after the first, whose settling wait was abandoned
\* (nothing was ever enqueued, and only the second event's thread is left)
C32_Witness ==
    /\ nevents = 2
    /\ last_event.accepted
    /\ Len(settlers) = 1
    /\ settlers[1].etime - StartTime < DebounceWindow
    /\ enq_log = <<>>
    /\ processing_set = {}

(***************************************************************************)
(* Properties of the pipeline and the history ledger (checked under        *)
(* SpecPipeline).                                                          *)
(***************************************************************************)
\* C2: when the pipeline processes a and then b, two files with identical
\* content, and a is classified into a category, a is moved under its
\* category folder and b is moved to the duplicate quarantine as a duplicate
\* of a, whether or not a had been moved when b was checked.
C2_SecondIsQuarantined ==
    \A i, j \in 1..Len(jobs) :
        (/\ jobs[i].path = Path(WatchDir, "a", 0)
         /\ jobs[j].path = Path(WatchDir, "b", 0)
         /\ jobs[i].pc = "done" /\ jobs[j].pc = "done"
         /\ jobs[i].seq = 1 /\ jobs[j].seq = 2
         /\ jobs[i].content = jobs[j].content
         /\ jobs[i].route = "classified" /\ jobs[i].ok)
        => (/\ jobs[i].dest.dir = CategoryDir
            /\ jobs[j].status = "exact_duplicate"
            /\ jobs[j].duplicate_of = jobs[i].path
            /\ jobs[j].dest.dir = QuarantineDir)

\* C10: on a ledger with exactly one recorded move whose destination file
\* exists, undo_last moves the file back to its source path, sets the
\* entry's can_undo to false and returns the entry; an undo_last on a ledger
\* whose only entry has been undone returns none and changes neither the
\* filesystem nor the ledger.
C10_UndoLastOnce ==
    [][(nundo' = nundo + 1 /\ Len(history) = 1)
       => LET entry == history[1] IN
          IF entry.can_undo
          THEN Exists(disk, entry.dest_path)
               => (/\ Exists(disk', entry.source_path)
                   /\ disk'[entry.source_path] = disk[entry.dest_path]
                   /\ ~Exists(disk', entry.dest_path)
                   /\ history' = <<[entry EXCEPT !.can_undo = FALSE]>>
                   /\ undo_result' = history'[1])
          ELSE /\ undo_result' = NoEntry
               /\ disk' = disk
               /\ history' = history
               /\ history_file' = history_file]_vars

\* C10 witness: the only move of the ledger was undone, the file is back at
\* its source path, and a second undo_last returned none
C10_Witness ==
    /\ nundo = 2
    /\ Len(history) = 1
    /\ ~history[1].can_undo
    /\ Exists(disk, history[1].source_path)
    /\ ~Exists(disk, history[1].dest_path)
    /\ undo_result = NoEntry

(***************************************************************************)
(* Properties of the history ledger over its life (checked under           *)
(* SpecLedger).                                                            *)
(***************************************************************************)
\* C11: when undo_last or undo_by_id selects an entry whose destination file
\* no longer exists, the entry is marked can_undo = false, no file is moved,
\* and the call reports a failed undo: what the caller gets differs from what
\* it gets for a successful undo (SmartFileOrganizer.undo_last returns False).
C11_MissingDestinationReported ==
    (undo_call.sel # 0 /\ undo_call.missing)
    => (/\ ~undo_result.can_undo
        /\ ~undo_call.moved
        /\ ~undo_ok(undo_result))

\* C12: every move the pipeline performed successfully (category folder,
\* matched rule, vault, duplicate quarantine) was recorded in the ledger as an
\* entry from the file's path to its final path, created with can_undo = true.
C12_EveryMoveRecorded ==
    \A j \in 1..Len(jobs) :
        (jobs[j].pc = "done" /\ jobs[j].dest # NoPath)
        => \E i \in 1..Len(issued) :
              /\ issued[i].source_path = jobs[j].path
              /\ issued[i].dest_path = jobs[j].dest
              /\ issued[i].can_undo

\* C13: when the intended destination exists, the Rename resolvers return
\* stem_N for the smallest N >= 1 whose name does not exist, and the path
\* returned never names a file that exists at resolution time.
C13_SmallestFreeSuffix ==
    (resolved.kind # "none" /\ resolved.dest \in resolved.seen)
    => LET N == resolved.path.n IN
       /\ ~resolved.raised
       /\ resolved.path \notin resolved.seen
       /\ N >= 1
       /\ resolved.path = [resolved.dest EXCEPT !.n = N]
       /\ \A k \in 1..(N - 1) : [resolved.dest EXCEPT !.n = k] \in resolved.seen

\* C14: for concurrent move_file calls that resolve to the same folder and
\* name, no two moves end at the same final path and no move replaces a file
\* that was at its destination.
C14_MovesNeverCollide ==
    /\ \A i, j \in 1..Len(movers) :
          (i # j /\ movers[i].pc = "done" /\ movers[j].pc = "done"
           /\ ~movers[i].raised /\ ~movers[j].raised)
          => movers[i].dest # movers[j].dest
    /\ \A i \in 1..Len(movers) : ~movers[i].overwrote

\* the orders in which n calls can run one after the other
Orders(n) == {f \in [1..n -> 1..n] : \A a, b \in 1..n : f[a] = f[b] => a = b}

\* the indexes after the first k calls of an order ran one after the other
RECURSIVE SeqIndex(_, _)
SeqIndex(order, k) ==
    IF k = 0 THEN EmptyIndex
    ELSE CheckDup(SeqIndex(order, k - 1), disk, checkers[order[k]].path).ix

\* the k-th call of an order returned what it returns when run in that order
SeqVerdictMatches(order, k) ==
    LET c == checkers[order[k]]
        o == CheckDup(SeqIndex(order, k - 1), disk, c.path)
    IN  /\ c.raised = o.raised
        /\ c.status = o.result.status
        /\ c.duplicate_of = o.result.duplicate_of

\* C15: concurrent check_duplicate calls are atomic with respect to each
\* other: once they have all returned, their verdicts and the contents of the
\* indexes are those of the same calls run one after the other in some order.
C15_ChecksSerializable ==
    (\A i \in 1..Len(checkers) : checkers[i].pc = "done")
    => \E order \in Orders(Len(checkers)) :
          /\ Index = SeqIndex(order, Len(checkers))
          /\ \A k \in 1..Len(checkers) : SeqVerdictMatches(order, k)

\* C16: every record_move call assigns an id strictly greater than every id
\* the ledger issued before, across undo, trimming, clear_history and reloads
\* of the ledger file; so no two entries issued ever carry the same id.
C16_IdsStrictlyIncrease ==
    \A i, j \in 1..Len(issued) : i < j => issued[i].id < issued[j].id

\* C17: concurrent record_move calls are serialized: once they have all
\* returned (and they are few enough that nothing is trimmed), every call's
\* entry is in the ledger, no two entries share an id, and the ledger file
\* contains every call's entry.
C17_RecordsSerialized ==
    (/\ \A i \in 1..Len(recorders) : recorders[i].pc = "done"
     /\ Len(recorders) <= MAX_HISTORY_SIZE)
    => /\ \A i \in 1..Len(recorders) : InList(history, recorders[i].entry)
       /\ \A k, l \in 1..Len(history) : k # l => history[k].id # history[l].id
       /\ \A i \in 1..Len(recorders) :
             \E k \in 1..Len(history_file.entries) :
                from_dict(history_file.entries[k]) = recorders[i].entry

C19_CorruptLedgerAborts ==
    boot.from = "garbage" => boot.raised

\* the entries recorded since the ledger was last emptied
IssuedSinceCleared == Len(issued) - cleared_at

\* C20: after every save the ledger holds at most MAX_HISTORY_SIZE entries,
\* and they are exactly the most recently recorded ones, in the order they
\* were recorded: the oldest are dropped first, undoable or not.
C20_TrimKeepsMostRecent ==
    /\ Len(history) <= MAX_HISTORY_SIZE
    /\ Len(history) = IF IssuedSinceCleared > MAX_HISTORY_SIZE
                      THEN MAX_HISTORY_SIZE ELSE IssuedSinceCleared
    /\ \A k \in 1..Len(history) :
          [history[k] EXCEPT !.can_undo = TRUE] = issued[Len(issued) - Len(history) + k]

\* a save trimmed the ledger: the oldest entry, whose file is still where it
\* was moved, was dropped, and an entry already undone was kept
C20_Witness ==
    /\ IssuedSinceCleared > MAX_HISTORY_SIZE
    /\ Len(history) = MAX_HISTORY_SIZE
    /\ Exists(disk, issued[cleared_at + 1].dest_path)
    /\ \E k \in 1..Len(history) : ~history[k].can_undo
    /\ history[Len(history)] = issued[Len(issued)]

\* the entries recorded before the oldest one the ledger still holds
TrimmedAway == Len(issued) - Len(history)

\* C21: an entry is created with can_undo = true; the flag of an entry only
\* ever changes from true to false, and only in an undo call that selected
\* this entry; no step sets it back to true.
C21_CanUndoOnlyFalls ==
    [][/\ \A k \in 1..Len(history), k2 \in 1..Len(history') :
             (TrimmedAway + k = TrimmedAway' + k2)
             => /\ history'[k2].can_undo => history[k].can_undo
                /\ (history[k].can_undo /\ ~history'[k2].can_undo)
                   => (nundo' = nundo + 1 /\ undo_call'.sel = k)
       /\ Len(issued') > Len(issued)
          => (Len(history') > 0 /\ history'[Len(history')].can_undo)
      ]_vars

\* an entry was undone, the program restarted from the saved ledger, and a
\* further undo call found nothing to select: the entry is still not undoable
C21_Witness ==
    /\ boot.from = "json"
    /\ \E k \in 1..Len(history) : ~history[k].can_undo
    /\ undo_call.kind # "none"
    /\ undo_call.sel = 0
    /\ nundo = MaxUndos

\* C22: a processor failure (an exception or False, on any attempt) ends
\* neither the dispatcher loop nor a worker and blocks no task: while the
\* queue manager runs, every task put on the queue is dispatched and reaches
\* Completed or Failed, whatever fails around it.
C22_EveryTaskTerminates ==
    \A t \in 1..MaxTasks :
        (t <= Len(tasks))
        ~> (t <= Len(tasks) /\ tasks[t].status \in {"completed", "failed"})

\* one task failed for good after its retries, and another task, put on the
\* queue with it, completed
C22_Witness ==
    \E t, u \in 1..Len(tasks) :
        /\ tasks[t].status = "failed"
        /\ tasks[t].failures = MaxRetries + 1
        /\ tasks[u].status = "completed"

\* C23: after stop() with wait enabled, every attempt a worker had started
\* runs to its end (the processor returned and the result was handled), and
\* once stop() has returned no attempt is started: no task is on a worker or
\* waiting for one, and no step starts one, the tasks that were on a retry
\* timer at the call included.
C23_StopWaitsAndStartsNothing ==
    [][(stop_pc'.pc = "returned")
       => /\ executing' = {}
          /\ submitted' = <<>>
          /\ \A t \in 1..Len(tasks') : tasks'[t].status # "processing"
          /\ \A t \in 1..Len(tasks) : tasks'[t].failures = tasks[t].failures
      ]_vars

\* stop() returned; an attempt in flight at the call has ended, and a task that
\* was on its retry timer at the call is back on the queue, not attempted again
C23_Witness ==
    /\ stop_pc.pc = "returned"
    /\ \E t \in stop_pc.in_flight : tasks[t].status \in {"completed", "failed", "retrying"}
    /\ \E t \in stop_pc.waiting : tasks[t].status = "retrying" /\ InList(queue, t)

(***************************************************************************)
(* Properties of the classification chain (checked under SpecClassify).    *)
(***************************************************************************)
\* a file has been classified and was not set aside as a similar image
Classified == chain.consulted # <<>> /\ chain.route # "duplicate"

\* a result that does not end the chain: none, or one that asks for more
NonTerminal(r) == r = NoClassification \/ r.needs_deeper_analysis

\* the tier was consulted
Consulted(tier) == \E i \in 1..Len(chain.consulted) : chain.consulted[i] = tier

\* the result the tier returned
ResultOf(tier) ==
    chain.results[CHOOSE i \in 1..Len(chain.consulted) : chain.consulted[i] = tier]

\* the orders in which tiers may be consulted
ChainShapes ==
    { <<"rule">>, <<"rule", "metadata">>, <<"rule", "metadata", "content">>,
      <<"rule", "metadata", "content", "deep">>,
      <<"rule", "metadata", "content", "fallback">>,
      <<"rule", "metadata", "content", "deep", "fallback">> }

\* C24: the chain consults its tiers in the order Rule, Metadata,
\* Content-pattern, Deep, Fallback; a tier is consulted only after every
\* tier consulted before it returned a non-terminal result, Deep and
\* Fallback only if available (Fallback without Deep only if Deep is not
\* available); the chain returns the first terminal result, and with
\* neither Deep nor Fallback available the Content-pattern result is
\* returned even though it is not terminal.
C24_TiersInOrder ==
    chain.consulted # <<>> =>
        /\ chain.consulted \in ChainShapes
        /\ \A j \in 1..Len(chain.consulted) : \A i \in 1..(j - 1) :
               NonTerminal(chain.results[i])
        /\ Consulted("deep") => chain.deep_available
        /\ Consulted("fallback") => chain.fallback_available
        /\ Consulted("fallback") /\ ~Consulted("deep") => ~chain.deep_available
        /\ Classified =>
               /\ \A i \in 1..Len(chain.results) :
                      ~NonTerminal(chain.results[i]) =>
                          chain.final = chain.results[i]
               /\ (/\ Consulted("content")
                   /\ ~chain.deep_available
                   /\ ~chain.fallback_available)
                      => chain.final = ResultOf("content")

\* the content tier asked for more, the deep tier is not available, and the
\* fallback tier gave the final, terminal result
C24_Witness ==
    /\ Classified
    /\ chain.consulted = <<"rule", "metadata", "content", "fallback">>
    /\ NonTerminal(ResultOf("content"))
    /\ ~chain.deep_available
    /\ chain.final.origin = "fallback"
    /\ ~chain.final.needs_deeper_analysis

\* C25: when the content tier's result is non-terminal and the fallback
\* tier is available, the chain ends with a terminal result of the fallback
\* tier unless the deep tier gave a terminal result; a deep tier that is
\* available but yields nothing does not end the chain.  (A fallback tier
\* that was asked and yielded nothing itself is left aside.)
C25_SilentDeepFallsBack ==
    (/\ Classified
     /\ Consulted("content")
     /\ NonTerminal(ResultOf("content"))
     /\ chain.fallback_available
     /\ ~(Consulted("deep") /\ ~NonTerminal(ResultOf("deep")))
     /\ ~(Consulted("fallback") /\ NonTerminal(ResultOf("fallback"))))
        => /\ ~chain.final.needs_deeper_analysis
           /\ chain.final.origin = "fallback"

\* C26: once a tier's result has is_sensitive set, the result of every
\* later tier and the final result have it set
C26_SensitivityNeverCleared ==
    Classified =>
        /\ \A j \in 1..Len(chain.results) : \A i \in 1..(j - 1) :
               chain.results[i].is_sensitive => chain.results[j].is_sensitive
        /\ \A i \in 1..Len(chain.results) :
               chain.results[i].is_sensitive => chain.final.is_sensitive

\* the enabled rules of the engine whose test holds for the classified file
EnabledMatching ==
    { i \in 1..Len(chain.rules) :
          chain.rules[i].enabled /\ PatternHolds(chain.rules[i], chain.file) }

\* C27: evaluate returns none exactly when no enabled rule matches, else
\* the terminal result of an enabled matching rule of the highest priority;
\* on a match the pipeline moves the file by that result and consults no
\* later tier
C27_HighestEnabledRuleWins ==
    chain.file # NoClassified =>
        LET r == ResultOf("rule") IN
        /\ Consulted("rule")
        /\ (r = NoClassification) <=> (EnabledMatching = {})
        /\ r # NoClassification =>
               /\ r.rule_id \in EnabledMatching
               /\ \A j \in EnabledMatching :
                      chain.rules[j].priority <= chain.rules[r.rule_id].priority
               /\ ~r.needs_deeper_analysis
               /\ r.is_sensitive = chain.rules[r.rule_id].is_sensitive
               /\ chain.consulted = <<"rule">>
               /\ chain.final = r
               /\ chain.route = "rule_move"

\* two rules match the file, the second of the list has the higher priority
\* and wins; the file is moved by its result
C27_Witness ==
    /\ chain.file # NoClassified
    /\ EnabledMatching = {1, 2}
    /\ chain.rules[1].priority < chain.rules[2].priority
    /\ chain.final.rule_id = 2
    /\ chain.route = "rule_move"

\* the counter limit of the resolution that was called
LimitOf(kind) == IF kind = "file_operations" THEN RenameLimit ELSE UniqueNameLimit

\* C28: when the destination name and every counter-suffixed name up to the
\* rename limit exist, name resolution raises nothing and yields the
\* timestamp-suffixed name, so the move proceeds
C28_ExhaustedCounterFallsBack ==
    (/\ resolved.kind # "none"
     /\ \A k \in 0..LimitOf(resolved.kind) :
            [resolved.dest EXCEPT !.n = k] \in resolved.seen)
        => /\ ~resolved.raised
           /\ resolved.path = [resolved.dest EXCEPT !.n = Timestamp]

(***************************************************************************)
(* Properties of the deduplication engine when files may be unreadable     *)
(* (checked under SpecPermissions).                                        *)
(***************************************************************************)
\* C29: a check_duplicate call for a file that is present and readable
\* raises nothing, whatever has become of the candidates indexed before: a
\* candidate that is missing or cannot be read is skipped.
C29_UnreadableCandidateSkipped ==
    (last_call.path # NoPath /\ last_call.own_readable) => ~last_call.raised

(***************************************************************************)
(* Properties of the ignore filter (checked under SpecIgnore).             *)
(***************************************************************************)
\* C30: a file whose name matches an ignore pattern (a.tmp matches *.tmp,
\* ~$a matches ~$*, .DS_Store matches itself) never gets an entry in the
\* debounce tracker, never a settling wait, is never marked in-flight and is
\* never enqueued, whatever events arrive for it
C30_IgnoredNeverEnters ==
    \A p \in IgnoredPaths :
        /\ p \notin DOMAIN pending
        /\ \A i \in 1..Len(settlers) : settlers[i].path # p
        /\ p \notin processing_set
        /\ \A i \in 1..Len(processing_queue) : processing_queue[i] # p
        /\ \A i \in 1..Len(enq_log) : enq_log[i].path # p
        /\ \A i \in 1..Len(tasks) : tasks[i].file_path # p

\* the latest event was for the partial download and was dropped, after an
\* earlier event for another file started a settling wait
C30_Witness ==
    /\ last_event.path = Path("watch", "a.tmp", 0)
    /\ nevents >= 2
    /\ settlers # <<>>

(***************************************************************************)
(* Properties of the engine's indexes over a run of calls (checked under   *)
(* SpecDedup).                                                             *)
(***************************************************************************)
\* C33: after any sequence of calls, also when a path is checked again after
\* its content has changed, each path is the value of at most one key of the
\* full-hash index.
C33_OneFullHashKeyPerPath ==
    \A h1, h2 \in DOMAIN full_hash_index :
        full_hash_index[h1] = full_hash_index[h2] => h1 = h2

\* C34: a check_duplicate call on a file whose size is not yet in the size
\* index records the path under that size (and as waiting for its partial
\* hash), returns Unique with no hashes in the result, and stores no hash:
\* the hash tables and the hash indexes are as they were before the call.
C34_FirstOfSizeHashesNothing ==
    [][(/\ ncalls' = ncalls + 1
        /\ Exists(disk, last_call'.path)
        /\ Len(disk[last_call'.path]) \notin DOMAIN size_index)
       => /\ result'.status = "unique"
          /\ result'.file_path = last_call'.path
          /\ result'.partial_hash = NoHash
          /\ result'.full_hash = NoHash
          /\ result'.duplicate_of = NoPath
          /\ size_index' = DictPut(size_index, Len(disk[last_call'.path]),
                                   <<last_call'.path>>)
          /\ files_pending_partial'[Len(disk[last_call'.path])] = <<last_call'.path>>
          /\ path_to_partial_hash' = path_to_partial_hash
          /\ path_to_full_hash' = path_to_full_hash
          /\ partial_hash_index' = partial_hash_index
          /\ full_hash_index' = full_hash_index]_vars

\* C34 witness: the latest call was the first for its size, on an engine
\* that had already hashed files of another size
C34_Witness ==
    /\ result.status = "unique"
    /\ result.file_path # NoPath
    /\ result.partial_hash = NoHash
    /\ result.file_size \in DOMAIN files_pending_partial
    /\ files_pending_partial[result.file_size] = <<result.file_path>>
    /\ DOMAIN path_to_partial_hash # {}

\* C35: over any sequence of check_duplicate calls on one engine, each path
\* has its partial hash computed at most once, be it as the incoming file or
\* lazily as a candidate of the same size.
C35_PartialHashComputedOnce ==
    \A p \in DOMAIN partial_computed : partial_computed[p] <= 1

\* the paths listed in the size buckets
SizeIndexed == UNION {{size_index[k][i] : i \in 1..Len(size_index[k])} : k \in DOMAIN size_index}

\* C36: after any sequence of check_duplicate calls, also when a path that
\* is already indexed is checked again, each path appears at most once in its
\* size bucket and at most once in its partial-hash bucket, a path just judged
\* ExactDuplicate is in neither, and total_files of get_stats is the number
\* of distinct paths recorded.
C36_EachPathListedOnce ==
    /\ \A k \in DOMAIN size_index : \A p \in SizeIndexed :
           Occurrences(size_index[k], p) <= 1
    /\ \A h \in DOMAIN partial_hash_index : \A p \in SizeIndexed :
           Occurrences(partial_hash_index[h], p) <= 1
    /\ result.status = "exact_duplicate"
       => /\ \A k \in DOMAIN size_index :
                 Occurrences(size_index[k], result.file_path) = 0
          /\ \A h \in DOMAIN partial_hash_index :
                 Occurrences(partial_hash_index[h], result.file_path) = 0
    /\ total_files(Index) = Cardinality(SizeIndexed)

(***************************************************************************)
(* Properties of the queue manager's attempts and counters (checked under  *)
(* SpecQueueLive and SpecQueue).                                           *)
(***************************************************************************)
\* the number of processor calls made for task t so far: those that failed,
\* the one that succeeded, and the one in progress
Invocations(t) ==
    tasks[t].failures
    + (IF tasks[t].status = "completed" THEN 1 ELSE 0)
    + (IF t \in executing THEN 1 ELSE 0)

\* C37: the processor is called at most max_retries + 1 times for a task,
\* and, the manager running and its threads and timers scheduled fairly,
\* every task put on the queue eventually is Completed or Failed and out of
\* the active-task set.
C37_BoundedAttemptsThenTerminal ==
    /\ [](\A t \in TaskIds : Invocations(t) <= MaxRetries + 1)
    /\ \A t \in 1..MaxTasks :
           (t <= Len(tasks))
           ~> (/\ t <= Len(tasks)
               /\ tasks[t].status \in {"completed", "failed"}
               /\ ~IsActive(t))

\* C37 witness: every task has ended, one of them on the last call allowed
C37_Witness ==
    /\ Len(tasks) = MaxTasks
    /\ \A t \in TaskIds : tasks[t].status \in {"completed", "failed"} /\ ~IsActive(t)
    /\ \E t \in TaskIds : Invocations(t) = MaxRetries + 1
    /\ active_tasks = EmptyDict

\* C38: under any interleaving of put, the dispatcher loop, the workers and
\* the retry timers, is_idle() is true only when no task is Pending,
\* Processing or Retrying.
C38_IdleOnlyWhenAllTerminal ==
    is_idle => \A t \in TaskIds : ~Live(t)

\* C39: in every reachable state, under any interleaving of put, dispatch,
\* success, failure and retry, total_processed = successful + failed,
\* pending >= 0 and processing >= 0, and each task is counted in
\* total_processed at most once, and only once it is Completed or Failed.
C39_StatsConsistent ==
    /\ stats.total_processed = stats.successful + stats.failed
    /\ stats.pending >= 0
    /\ stats.processing >= 0
    /\ \A t \in TaskIds :
           /\ tasks[t].counted <= 1
           /\ tasks[t].counted = 1 => tasks[t].status \in {"completed", "failed"}
    /\ stats.total_processed = Cardinality({t \in TaskIds : tasks[t].counted >= 1})

\* C39 witness: one task has failed for good and has been counted; the other
\* has been retried, is marked Completed and is not counted yet (its worker
\* stands before the locked section of _handle_success)
C39_Witness ==
    /\ stats.failed = 1
    /\ stats.retried >= 1
    /\ \E t \in DOMAIN task_pc :
           task_pc[t] = "success_marked" /\ tasks[t].retry_count >= 1

(***************************************************************************)
(* Undo and the files at the source path (checked under SpecLedger).       *)
(***************************************************************************)
\* C40: undo destroys no file: when undo_last or undo_by_id moves a file
\* back to its source path, every other file that was on disk when the undo
\* was called is still there afterwards, with its content; in particular no
\* file stood at the source path for the returning file to replace.
C40_UndoDestroysNoFile ==
    [][(nundo' = nundo + 1 /\ undo_call'.moved)
       => LET entry == history[undo_call'.sel] IN
          \A p \in (DOMAIN disk) \ {entry.dest_path} :
              /\ p # entry.source_path
              /\ Exists(disk', p)
              /\ disk'[p] = disk[p]]_vars

====
